---- MODULE Spec2Model ----
(***************************************************************************)
(* The data layer of the pro se litigation platform: the Database (one     *)
(* shared sqlite3 connection, one threading.Lock), and the repositories    *)
(* built on it (CaseManager, ViolationTracker, LegalAuthority,             *)
(* NuclearStrategies).                                                     *)
(*                                                                         *)
(* conn is what every cursor of the shared connection reads and writes     *)
(* (committed rows plus the pending transaction); disk is what has been    *)
(* committed.  connection.commit() makes disk equal to conn, and           *)
(* connection.rollback() makes conn equal to disk.  A caller is a thread   *)
(* of the web application; each call on the connection (cursor.execute,    *)
(* connection.commit) is an interval that starts at BeginCall and ends at  *)
(* the step of the handler that applies it.                                *)
(***************************************************************************)
EXTENDS Integers, Sequences, FiniteSets, TLC

\* ------------------------------------------------------------- bounds
NumCallers == 2
MaxClock == 2
MaxUuid == 3
MaxDate == 1
\* the most cases, and the most evidence rows and timeline events together,
\* the callers store
MaxRows == 2
\* the longest query and the longest text given to _calculate_relevance
MaxLen == 3
\* the most dicts the search_authority calls of one get_relevant_authorities give
MaxFound == 9

Callers == 1..NumCallers
NoCaller == 0
\* the caller of the specifications in which calls come one at a time
Main == 1
\* a second caller, who commits and rolls back while Main works
Other == 2
\* an identifier that no uuid4() call returns
NoSuchId == 0

Unset == "unset"

VARIABLES conn, disk, lock, busy, raced, pc, frame, ret, clock, uuids

vars == <<conn, disk, lock, busy, raced, pc, frame, ret, clock, uuids>>

\* ------------------------------------------------------------- schema
\* The tables as Database._create_all_tables creates them.  Database() is
\* constructed before any repository, so each repository's own
\* CREATE TABLE IF NOT EXISTS finds the table present and changes nothing.
CasesColumns ==
    {"id", "name", "type", "created_date", "last_modified", "status", "metadata",
     "plaintiff_info", "defendant_info", "court_info", "case_summary",
     "estimated_value", "priority_level"}

CaseFilesColumns ==
    {"id", "case_id", "filename", "file_type", "file_size", "upload_date",
     "file_path", "analysis_data", "content_hash", "file_category"}

CaseDocumentsColumns ==
    {"id", "case_id", "document_type", "title", "content", "created_date",
     "version", "template_used", "legal_authorities", "status", "filing_date"}

\* PRAGMA foreign_keys is never switched on: sqlite3 does not enforce the
\* FOREIGN KEY clauses, nor their ON DELETE CASCADE.
ForeignKeysEnforced == FALSE

ViolationsColumns ==
    {"id", "case_id", "violation_type", "person_involved", "description",
     "date_occurred", "legal_codes", "evidence_ids", "statute_analysis",
     "elements_analysis", "created_date", "last_updated", "severity_level",
     "damages_estimate"}

NuclearStrategiesColumns ==
    {"id", "case_id", "strategy_type", "situation_description", "strategy_content",
     "risk_assessment", "precedent_cases", "implementation_steps", "created_date",
     "status", "effectiveness_rating", "last_reviewed"}

LegalAuthoritiesColumns ==
    {"id", "citation", "title", "court", "year", "summary", "full_text",
     "verification_status", "verification_date", "source_url", "authority_type",
     "jurisdiction", "created_date", "relevance_score", "usage_count"}

\* Database creates neither of these two: ViolationTracker.ensure_tables does.
ViolationEvidenceColumns ==
    {"id", "violation_id", "evidence_type", "description", "file_path",
     "credibility_score", "created_date"}

ViolationTimelineColumns ==
    {"id", "violation_id", "event_date", "event_description", "supporting_evidence",
     "created_date"}

EmptyDb ==
    [cases |-> {}, case_files |-> {}, case_documents |-> {}, violations |-> {},
     violation_evidence |-> {}, violation_timeline |-> {}, nuclear_strategies |-> {},
     legal_authorities |-> {}]

\* ------------------------------------------------------------- statements
\* The result of one statement: the connection's rows after it, whether it
\* completed (ok) or raised, and cursor.rowcount.
StmtResult(db, ok, rowcount) == [db |-> db, ok |-> ok, rowcount |-> rowcount]

Raised(db) == StmtResult(db, FALSE, 0)

\* INSERT INTO table (columns) VALUES row: raises when a named column is not
\* in the table (OperationalError), when the primary key is taken
\* (IntegrityError), or, with foreign keys enforced, when the parent is absent.
SqlInsert(db, table, schema, columns, row, parentOk) ==
    IF ~(columns \subseteq schema) THEN Raised(db)
    ELSE IF \E r \in db[table] : r.id = row.id THEN Raised(db)
    ELSE IF ForeignKeysEnforced /\ ~parentOk THEN Raised(db)
    ELSE StmtResult([db EXCEPT ![table] = @ \cup {row}], TRUE, 1)

\* INSERT OR REPLACE INTO table (columns) VALUES row: raises when a named
\* column is not in the table; otherwise the rows that hold the new row's
\* primary key or its value in a UNIQUE column are deleted and the row is stored.
SqlInsertOrReplace(db, table, schema, columns, row, unique) ==
    IF ~(columns \subseteq schema) THEN Raised(db)
    ELSE LET clash == {r \in db[table] : \E k \in {"id"} \cup unique : r[k] = row[k]}
         IN  StmtResult([db EXCEPT ![table] = (@ \ clash) \cup {row}], TRUE, 1)

\* DELETE FROM table WHERE column = value
\* (mutant) the DELETE without its WHERE clause
SqlDeleteAll(db, table, column, value) ==
    StmtResult([db EXCEPT ![table] = {}], TRUE, Cardinality(db[table]))

SqlDelete(db, table, column, value) ==
    LET gone == {r \in db[table] : r[column] = value}
    IN  StmtResult([db EXCEPT ![table] = @ \ gone], TRUE, Cardinality(gone))

\* (mutant) the parent is stamped with the epoch instead of the time read
TouchCaseStale(db, case_id, t) ==
    LET hit == {r \in db.cases : r.id = case_id}
    IN  StmtResult(
            [db EXCEPT !.cases =
                {IF r \in hit THEN [r EXCEPT !.last_modified = 0] ELSE r : r \in @}],
            TRUE, Cardinality(hit))

\* UPDATE cases SET last_modified = t WHERE id = case_id
TouchCase(db, case_id, t) ==
    LET hit == {r \in db.cases : r.id = case_id}
    IN  StmtResult(
            [db EXCEPT !.cases =
                {IF r \in hit THEN [r EXCEPT !.last_modified = t] ELSE r : r \in @}],
            TRUE, Cardinality(hit))

\* UPDATE cases SET <supplied fields>, last_modified = t WHERE id = case_id.
\* The statement names every supplied key as a column; when a column is
\* named twice sqlite3 keeps the rightmost assignment, so a supplied
\* last_modified is overridden by t.
NoUpdate == [name |-> Unset, status |-> Unset, last_modified |-> -1, bogus |-> FALSE]

UpdateKeys(u) ==
    (IF u.name # Unset THEN {"name"} ELSE {})
    \cup (IF u.status # Unset THEN {"status"} ELSE {})
    \cup (IF u.last_modified # -1 THEN {"last_modified"} ELSE {})
    \cup (IF u.bogus THEN {"bogus"} ELSE {})

UpdateRow(r, u, t) ==
    [r EXCEPT !.name = IF u.name # Unset THEN u.name ELSE @,
              !.status = IF u.status # Unset THEN u.status ELSE @,
              !.last_modified = t]

\* (mutant) the WHERE id = ? clause is lost: every case is updated
SqlUpdateCaseAll(db, case_id, u, t) ==
    IF ~(UpdateKeys(u) \cup {"last_modified"} \subseteq CasesColumns) THEN Raised(db)
    ELSE StmtResult([db EXCEPT !.cases = {UpdateRow(r, u, t) : r \in @}],
                    TRUE, Cardinality(db.cases))

SqlUpdateCase(db, case_id, u, t) ==
    IF ~(UpdateKeys(u) \cup {"last_modified"} \subseteq CasesColumns) THEN Raised(db)
    ELSE LET hit == {r \in db.cases : r.id = case_id}
         IN  StmtResult(
                 [db EXCEPT !.cases =
                     {IF r \in hit THEN UpdateRow(r, u, t) ELSE r : r \in @}],
                 TRUE, Cardinality(hit))

\* UPDATE violations SET damages_estimate = amount WHERE id = violation_id
SqlUpdateDamages(db, violation_id, amount) ==
    LET hit == {r \in db.violations : r.id = violation_id}
    IN  StmtResult(
            [db EXCEPT !.violations =
                {IF r \in hit THEN [r EXCEPT !.damages_estimate = amount] ELSE r : r \in @}],
            TRUE, Cardinality(hit))

\* ORDER BY that ignores DESC
RECURSIVE OrderByAscending(_, _, _)
OrderByAscending(rows, key, descending) ==
    IF rows = {} THEN <<>>
    ELSE LET first == CHOOSE r \in rows : \A q \in rows : key[r] <= key[q]
         IN  <<first>> \o OrderByAscending(rows \ {first}, key, descending)

\* SELECT ... ORDER BY key [DESC]: the rows of a set as a sequence, key[r]
\* being the value of the ordering column in row r
RECURSIVE OrderBy(_, _, _)
OrderBy(rows, key, descending) ==
    IF rows = {} THEN <<>>
    ELSE LET first == CHOOSE r \in rows : \A q \in rows :
                          IF descending THEN key[r] >= key[q] ELSE key[r] <= key[q]
         IN  <<first>> \o OrderBy(rows \ {first}, key, descending)

\* ------------------------------------------------------------- text
\* A str is the sequence of its characters.
UpperCase ==
    <<"A", "B", "C", "D", "E", "F", "G", "H", "I", "J", "K", "L", "M",
      "N", "O", "P", "Q", "R", "S", "T", "U", "V", "W", "X", "Y", "Z">>

LowerCase ==
    <<"a", "b", "c", "d", "e", "f", "g", "h", "i", "j", "k", "l", "m",
      "n", "o", "p", "q", "r", "s", "t", "u", "v", "w", "x", "y", "z">>

\* the lower case letter of each upper case letter
LowerOf ==
    [ch \in {UpperCase[n] : n \in 1..Len(UpperCase)} |->
        LowerCase[CHOOSE n \in 1..Len(UpperCase) : UpperCase[n] = ch]]

\* str.lower()
lower(s) == [i \in 1..Len(s) |-> IF s[i] \in DOMAIN LowerOf THEN LowerOf[s[i]] ELSE s[i]]

\* what str.split() and str.strip() take for white space
WhiteSpace == {" ", "\n", "\t"}

\* needle in hay
Contains(needle, hay) ==
    \E i \in 0..(Len(hay) - Len(needle)) :
        \A j \in 1..Len(needle) : hay[i + j] = needle[j]

\* str.split(): the maximal runs of characters that are not white space;
\* word is the run that ends before s[i]
RECURSIVE Words(_, _, _)
Words(s, i, word) ==
    IF i > Len(s) THEN IF word = <<>> THEN <<>> ELSE <<word>>
    ELSE IF s[i] \in WhiteSpace
    THEN (IF word = <<>> THEN <<>> ELSE <<word>>) \o Words(s, i + 1, <<>>)
    ELSE Words(s, i + 1, Append(word, s[i]))

split(s) == Words(s, 1, <<>>)

\* str.strip()
RECURSIVE strip(_)
strip(s) ==
    IF s = <<>> THEN s
    ELSE IF Head(s) \in WhiteSpace THEN strip(Tail(s))
    ELSE IF s[Len(s)] \in WhiteSpace THEN strip(SubSeq(s, 1, Len(s) - 1))
    ELSE s

\* s.replace(old, ''), old not being empty
RECURSIVE Remove(_, _)
Remove(s, old) ==
    IF Len(s) < Len(old) THEN s
    ELSE IF SubSeq(s, 1, Len(old)) = old THEN Remove(SubSeq(s, Len(old) + 1, Len(s)), old)
    ELSE <<Head(s)>> \o Remove(Tail(s), old)

\* s.split('\n')
RECURSIVE SplitLines(_)
SplitLines(s) ==
    IF \E i \in 1..Len(s) : s[i] = "\n"
    THEN LET i == CHOOSE n \in 1..Len(s) :
                      s[n] = "\n" /\ \A j \in 1..(n - 1) : s[j] # "\n"
         IN  <<SubSeq(s, 1, i - 1)>> \o SplitLines(SubSeq(s, i + 1, Len(s)))
    ELSE <<s>>

\* seq[:n]
Truncate(seq, n) == SubSeq(seq, 1, IF Len(seq) < n THEN Len(seq) ELSE n)

\* set(words)
ToSet(seq) == {seq[i] : i \in 1..Len(seq)}

\* a float that is a quotient of two counts
Quotient(num, den) == [num |-> num, den |-> den]

Zero == Quotient(0, 1)

One == Quotient(1, 1)

\* a <= b
AtMost(a, b) == a.num * b.den <= b.num * a.den

\* min(a, b)
Min(a, b) == IF AtMost(b, a) THEN b ELSE a

\* ------------------------------------------------------------- statutes
\* self.violation_categories, in the order of the dict
violation_categories ==
    <<
     [category |-> <<"C", "i", "v", "i", "l", " ", "R", "i", "g", "h", "t", "s">>,
      federal_statutes |->
          <<<<"4", "2", " ", "U", ".", "S", ".", "C", ".", " ", "§", " ", "1", "9", "8", "3">>,
            <<"4", "2", " ", "U", ".", "S", ".", "C", ".", " ", "§", " ", "1", "9", "8", "1">>,
            <<"4", "2", " ", "U", ".", "S", ".", "C", ".", " ", "§", " ", "1", "9", "8",
              "5">>>>,
      texas_statutes |->
          <<<<"T", "e", "x", "a", "s", " ", "C", "i", "v", "i", "l", " ", "P", "r", "a", "c",
            "t", "i", "c", "e", " ", "a", "n", "d", " ", "R", "e", "m", "e", "d", "i", "e",
            "s", " ", "C", "o", "d", "e", " ", "C", "h", "a", "p", "t", "e", "r", " ", "1",
            "0", "6">>>>,
      common_violations |->
          <<<<"D", "u", "e", " ", "P", "r", "o", "c", "e", "s", "s">>,
            <<"E", "q", "u", "a", "l", " ", "P", "r", "o", "t", "e", "c", "t", "i", "o", "n">>,
            <<"F", "i", "r", "s", "t", " ", "A", "m", "e", "n", "d", "m", "e", "n", "t">>,
            <<"F", "o", "u", "r", "t", "h", " ", "A", "m", "e", "n", "d", "m", "e", "n",
              "t">>>>],
     [category |-> <<"E", "m", "p", "l", "o", "y", "m", "e", "n", "t">>,
      federal_statutes |->
          <<<<"T", "i", "t", "l", "e", " ", "V", "I", "I">>,
            <<"A", "D", "A">>,
            <<"A", "D", "E", "A">>,
            <<"F", "L", "S", "A">>>>,
      texas_statutes |->
          <<<<"T", "e", "x", "a", "s", " ", "L", "a", "b", "o", "r", " ", "C", "o", "d", "e">>,
            <<"T", "e", "x", "a", "s", " ", "C", "o", "m", "m", "i", "s", "s", "i", "o", "n",
              " ", "o", "n", " ", "H", "u", "m", "a", "n", " ", "R", "i", "g", "h", "t", "s",
              " ", "A", "c", "t">>>>,
      common_violations |->
          <<<<"D", "i", "s", "c", "r", "i", "m", "i", "n", "a", "t", "i", "o", "n">>,
            <<"H", "a", "r", "a", "s", "s", "m", "e", "n", "t">>,
            <<"W", "a", "g", "e", " ", "T", "h", "e", "f", "t">>,
            <<"W", "r", "o", "n", "g", "f", "u", "l", " ", "T", "e", "r", "m", "i", "n", "a",
              "t", "i", "o", "n">>>>],
     [category |-> <<"C", "o", "n", "s", "u", "m", "e", "r", " ", "P", "r", "o", "t", "e", "c",
       "t", "i", "o", "n">>,
      federal_statutes |->
          <<<<"F", "D", "C", "P", "A">>,
            <<"F", "C", "R", "A">>,
            <<"T", "C", "P", "A">>>>,
      texas_statutes |->
          <<<<"T", "e", "x", "a", "s", " ", "D", "e", "c", "e", "p", "t", "i", "v", "e", " ",
            "T", "r", "a", "d", "e", " ", "P", "r", "a", "c", "t", "i", "c", "e", "s", " ",
            "A", "c", "t">>,
            <<"T", "e", "x", "a", "s", " ", "F", "i", "n", "a", "n", "c", "e", " ", "C", "o",
              "d", "e">>>>,
      common_violations |->
          <<<<"D", "e", "c", "e", "p", "t", "i", "v", "e", " ", "P", "r", "a", "c", "t", "i",
            "c", "e", "s">>,
            <<"D", "e", "b", "t", " ", "C", "o", "l", "l", "e", "c", "t", "i", "o", "n">>,
            <<"C", "r", "e", "d", "i", "t", " ", "R", "e", "p", "o", "r", "t", "i", "n", "g">>,
            <<"T", "e", "l", "e", "m", "a", "r", "k", "e", "t", "i", "n", "g">>>>],
     [category |-> <<"P", "r", "o", "p", "e", "r", "t", "y", " ", "R", "i", "g", "h", "t",
       "s">>,
      federal_statutes |->
          <<<<"F", "a", "i", "r", " ", "H", "o", "u", "s", "i", "n", "g", " ", "A", "c", "t">>,
            <<"A", "D", "A">>>>,
      texas_statutes |->
          <<<<"T", "e", "x", "a", "s", " ", "P", "r", "o", "p", "e", "r", "t", "y", " ", "C",
            "o", "d", "e">>,
            <<"T", "e", "x", "a", "s", " ", "F", "a", "i", "r", " ", "H", "o", "u", "s", "i",
              "n", "g", " ", "A", "c", "t">>>>,
      common_violations |->
          <<<<"H", "o", "u", "s", "i", "n", "g", " ", "D", "i", "s", "c", "r", "i", "m", "i",
            "n", "a", "t", "i", "o", "n">>,
            <<"L", "a", "n", "d", "l", "o", "r", "d", "-", "T", "e", "n", "a", "n", "t">>,
            <<"P", "r", "o", "p", "e", "r", "t", "y", " ", "D", "a", "m", "a", "g", "e">>,
            <<"T", "r", "e", "s", "p", "a", "s", "s">>>>],
     [category |-> <<"G", "o", "v", "e", "r", "n", "m", "e", "n", "t", " ", "A", "c", "c", "o",
       "u", "n", "t", "a", "b", "i", "l", "i", "t", "y">>,
      federal_statutes |->
          <<<<"4", "2", " ", "U", ".", "S", ".", "C", ".", " ", "§", " ", "1", "9", "8", "3">>,
            <<"F", "i", "r", "s", "t", " ", "A", "m", "e", "n", "d", "m", "e", "n", "t">>>>,
      texas_statutes |->
          <<<<"T", "e", "x", "a", "s", " ", "G", "o", "v", "e", "r", "n", "m", "e", "n", "t",
            " ", "C", "o", "d", "e">>,
            <<"T", "e", "x", "a", "s", " ", "P", "u", "b", "l", "i", "c", " ", "I", "n", "f",
              "o", "r", "m", "a", "t", "i", "o", "n", " ", "A", "c", "t">>>>,
      common_violations |->
          <<<<"P", "u", "b", "l", "i", "c", " ", "R", "e", "c", "o", "r", "d", "s">>,
            <<"O", "p", "e", "n", " ", "M", "e", "e", "t", "i", "n", "g", "s">>,
            <<"G", "o", "v", "e", "r", "n", "m", "e", "n", "t", " ", "T", "r", "a", "n", "s",
              "p", "a", "r", "e", "n", "c", "y">>,
            <<"O", "f", "f", "i", "c", "i", "a", "l", " ", "M", "i", "s", "c", "o", "n", "d",
              "u", "c", "t">>>>]
    >>

\* the condition of the loop of _get_applicable_statutes for one category
CategoryApplies(info, violation_type) ==
    \/ Contains(lower(violation_type), lower(info.category))
    \/ \E n \in 1..Len(info.common_violations) :
           Contains(lower(info.common_violations[n]), lower(violation_type))

\* statutes[:5]
MaxStatutes == 5

\* 'U.S.C.' in line or 'Texas' in line and 'Code' in line
IsStatuteLine(line) ==
    \/ Contains(<<"U", ".", "S", ".", "C", ".">>, line)
    \/ Contains(<<"T", "e", "x", "a", "s">>, line) /\ Contains(<<"C", "o", "d", "e">>, line)

\* the lines of the analysis that are taken for statutes, stripped
RECURSIVE StatuteLines(_)
StatuteLines(lines) ==
    IF lines = <<>> THEN <<>>
    ELSE (IF IsStatuteLine(Head(lines)) THEN <<strip(Head(lines))>> ELSE <<>>)
             \o StatuteLines(Tail(lines))

\* sep.join(strings)
RECURSIVE JoinWith(_, _)
JoinWith(strings, sep) ==
    IF strings = <<>> THEN <<>>
    ELSE IF Len(strings) = 1 THEN Head(strings)
    ELSE Head(strings) \o sep \o JoinWith(Tail(strings), sep)

\* Does the lookup in the table fail, so that the client is asked?
AsksClient(violation_type) ==
    \A i \in 1..Len(violation_categories) :
        ~CategoryApplies(violation_categories[i], violation_type)

\* analysis is what the client answers when it is asked.  The client
\* returns a string whatever happens to the request, and the violation type
\* is a string, so that the except clause is not reached.
_get_applicable_statutes(violation_type, analysis) ==
    IF ~AsksClient(violation_type)
    THEN LET i == CHOOSE n \in 1..Len(violation_categories) :
                      /\ CategoryApplies(violation_categories[n], violation_type)
                      /\ \A m \in 1..(n - 1) :
                             ~CategoryApplies(violation_categories[m], violation_type)
         IN  violation_categories[i].federal_statutes
                 \o violation_categories[i].texas_statutes
    ELSE LET statutes == StatuteLines(SplitLines(analysis))
         IN  IF statutes # <<>> THEN Truncate(statutes, MaxStatutes)
             ELSE <<<<"R", "e", "s", "e", "a", "r", "c", "h", " ", "R", "e", "q", "u", "i",
               "r", "e", "d">>>>

\* ------------------------------------------------------------- callers
\* What a path can name instead of a database: nothing, a directory, or a
\* file that is not a database.  Closed is the connection after
\* connection.close(), on which every statement raises ProgrammingError;
\* a connection to a file that is not a database raises DatabaseError.
Missing == [file |-> "missing"]

Directory == [file |-> "directory"]

NotADatabase == [file |-> "not a database"]

Closed == [file |-> "closed"]

Usable(db) == db \notin {Missing, Directory, NotADatabase, Closed}

NoFrame ==
    [op |-> "none", id |-> NoSuchId, name |-> Unset, u |-> NoUpdate, newid |-> NoSuchId,
     t |-> 0, rowcount |-> 0, pre |-> EmptyDb, date |-> 0, events |-> <<>>, k |-> 0,
     citation |-> <<>>, summary |-> <<>>, verified |-> FALSE, query |-> <<>>,
     text |-> <<>>, external |-> 0, params |-> <<>>, found |-> <<>>, codes |-> <<>>,
     written |-> {}, backup |-> Missing]

\* What a finished call leaves: status is "returned" (with value), "raised"
\* (an exception left the method) or "error" (the method caught the
\* exception and returned its error value).
NoRet ==
    [op |-> "none", id |-> NoSuchId, name |-> Unset, u |-> NoUpdate, newid |-> NoSuchId,
     t |-> 0, status |-> "none", value |-> FALSE, pre |-> EmptyDb, events |-> <<>>,
     citation |-> <<>>, summary |-> <<>>, verified |-> FALSE, k |-> 0, query |-> <<>>,
     text |-> <<>>, external |-> 0, params |-> <<>>, found |-> <<>>, codes |-> <<>>,
     written |-> {}, backup |-> Missing]

Outcome(f, status, value) ==
    [op |-> f.op, id |-> f.id, name |-> f.name, u |-> f.u, newid |-> f.newid,
     t |-> f.t, status |-> status, value |-> value, pre |-> f.pre, events |-> f.events,
     citation |-> f.citation, summary |-> f.summary, verified |-> f.verified,
     k |-> f.k, query |-> f.query, text |-> f.text, external |-> f.external,
     params |-> f.params, found |-> f.found, codes |-> f.codes, written |-> f.written,
     backup |-> f.backup]

\* self.db.commit(): Database.commit takes the lock around connection.commit()
CommitLabels ==
    {"cc_commit", "uc_commit", "dc_commit", "af_commit", "ad_commit",
     "av_commit", "ae_commit", "tl_commit", "cd_commit", "ss_commit"}

\* the calls made under Database._lock: connection.commit() and
\* connection.rollback(), reached through Database.commit and Database.rollback
LockedLabels ==
    CommitLabels \cup {"db_commit", "db_rollback", "eu_execute", "em_execute", "rs_restore"}

\* the statements whose parameters read datetime.now()
ClockLabels ==
    {"cc_insert", "uc_update", "af_insert", "af_touch", "ad_insert", "ad_touch",
     "av_insert", "ae_insert", "tl_insert", "ss_insert", "aa_insert", "vc_select"}

\* A caller enters a call on the shared connection.  Database.get_cursor
\* hands out a cursor without taking the lock, so cursor.execute enters
\* whatever the other callers are doing; only Database's own methods wait
\* for the lock.  Two calls that overlap race on the connection.
BeginCall(c) ==
    /\ pc[c] # "idle"
    /\ c \notin busy
    /\ pc[c] \in LockedLabels => lock = NoCaller
    /\ lock' = IF pc[c] \in LockedLabels THEN c ELSE lock
    /\ busy' = busy \cup {c}
    /\ raced' = IF busy = {} THEN raced ELSE raced \cup busy \cup {c}
    /\ frame' = [frame EXCEPT ![c].t = IF pc[c] \in ClockLabels THEN clock ELSE @]
    /\ UNCHANGED <<conn, disk, pc, ret, clock, uuids>>

EndCall(c) ==
    /\ busy' = busy \ {c}
    /\ raced' = raced \ {c}
    /\ lock' = IF lock = c /\ pc[c] \in LockedLabels THEN NoCaller ELSE lock

\* What a call that overlapped another caller's call can do: complete, raise
\* (sqlite3.DatabaseError) or return without its effect.  A call that ran
\* alone completes.
Outcomes(c) == IF c \in raced THEN {"done", "raised", "lost"} ELSE {"done"}

Apply(o, r) ==
    IF o = "done" THEN r
    ELSE IF o = "lost" THEN StmtResult(conn, r.ok, r.rowcount)
    ELSE Raised(conn)

\* cursor.execute(...): the statement's result r is applied and the method
\* goes on at next (with frame g); when the statement raises, the method
\* ends with status failed.
Statement(c, label, r, next, g, failed) ==
    /\ pc[c] = label
    /\ c \in busy
    /\ \E o \in Outcomes(c) :
         LET q == Apply(o, r)
         IN  /\ conn' = q.db
             /\ IF q.ok
                THEN /\ pc' = [pc EXCEPT ![c] = next]
                     /\ frame' = [frame EXCEPT ![c] = [g EXCEPT !.rowcount = q.rowcount]]
                     /\ ret' = ret
                ELSE /\ pc' = [pc EXCEPT ![c] = "idle"]
                     /\ frame' = [frame EXCEPT ![c] = NoFrame]
                     /\ ret' = [ret EXCEPT ![c] = Outcome(frame[c], failed, FALSE)]
    /\ EndCall(c)
    /\ UNCHANGED <<disk, clock, uuids>>

\* in a method that catches nothing: the exception leaves the method
Execute(c, label, r, next) == Statement(c, label, r, next, frame[c], "raised")

\* inside try/except Exception: the method returns its error value
ExecuteTry(c, label, r, next) == Statement(c, label, r, next, frame[c], "error")

\* self.db.commit(), after which the method goes on at next
Commit(c, label, next, failed) ==
    /\ pc[c] = label
    /\ c \in busy
    /\ \E o \in Outcomes(c) :
         /\ disk' = IF o = "done" THEN conn ELSE disk
         /\ IF o = "raised"
            THEN /\ pc' = [pc EXCEPT ![c] = "idle"]
                 /\ frame' = [frame EXCEPT ![c] = NoFrame]
                 /\ ret' = [ret EXCEPT ![c] = Outcome(frame[c], failed, FALSE)]
            ELSE /\ pc' = [pc EXCEPT ![c] = next]
                 /\ UNCHANGED <<frame, ret>>
    /\ EndCall(c)
    /\ UNCHANGED <<conn, clock, uuids>>

\* self.db.commit() followed by the method's return of value
Finish(c, label, value, failed) ==
    /\ pc[c] = label
    /\ c \in busy
    /\ \E o \in Outcomes(c) :
         /\ disk' = IF o = "done" THEN conn ELSE disk
         /\ ret' = [ret EXCEPT ![c] =
                      IF o = "raised" THEN Outcome(frame[c], failed, FALSE)
                      ELSE Outcome(frame[c], "returned", value)]
    /\ pc' = [pc EXCEPT ![c] = "idle"]
    /\ frame' = [frame EXCEPT ![c] = NoFrame]
    /\ EndCall(c)
    /\ UNCHANGED <<conn, clock, uuids>>

CommitAndReturn(c, label, value) == Finish(c, label, value, "raised")

CommitAndReturnTry(c, label, value) == Finish(c, label, value, "error")

\* a method is called with the arguments of frame f; fresh: it draws a uuid4
Enter(c, f, fresh, first) ==
    /\ pc[c] = "idle"
    /\ fresh => uuids < MaxUuid
    /\ uuids' = IF fresh THEN uuids + 1 ELSE uuids
    /\ frame' = [frame EXCEPT ![c] =
                   [f EXCEPT !.newid = IF fresh THEN uuids + 1 ELSE @, !.pre = conn]]
    /\ ret' = [ret EXCEPT ![c] = NoRet]
    /\ pc' = [pc EXCEPT ![c] = first]
    /\ UNCHANGED <<conn, disk, lock, busy, raced, clock>>

Call(c, op, id, name, u, fresh, first) ==
    Enter(c, [NoFrame EXCEPT !.op = op, !.id = id, !.name = name, !.u = u], fresh, first)

\* the case identifiers a caller can pass: one that never existed, a stored
\* case's, or the one of a deleted case that rows still name
KnownIds ==
    {NoSuchId} \cup {r.id : r \in conn.cases}
    \cup {r.case_id : r \in conn.case_files \cup conn.case_documents}

\* ------------------------------------------------------------- CaseManager
\* the columns the properties read; the other columns are written once and
\* never read back by the repositories
CaseRow(f) ==
    [id |-> f.newid, name |-> f.name, status |-> "Active", last_modified |-> f.t]

FileRow(f) == [id |-> f.newid, case_id |-> f.id]

DocumentRow(f) == [id |-> f.newid, case_id |-> f.id]

CaseExists(db, case_id) == \E r \in db.cases : r.id = case_id

create_case(c) ==
    \/ /\ Cardinality(conn.cases) < MaxRows
       /\ Call(c, "create_case", NoSuchId, "A", NoUpdate, TRUE, "cc_insert")
    \/ Execute(c, "cc_insert",
               SqlInsert(conn, "cases", CasesColumns,
                         {"id", "name", "type", "created_date", "last_modified"},
                         CaseRow(frame[c]), TRUE),
               "cc_commit")
    \/ CommitAndReturn(c, "cc_commit", frame[c].newid)

UpdateInputs ==
    {NoUpdate,
     [NoUpdate EXCEPT !.name = "B"],
     [NoUpdate EXCEPT !.status = "Closed"],
     [NoUpdate EXCEPT !.last_modified = 0],
     [NoUpdate EXCEPT !.bogus = TRUE]}

update_case(c) ==
    \/ \E id \in KnownIds, u \in UpdateInputs :
         Call(c, "update_case", id, Unset, u, FALSE, "uc_update")
    \/ Execute(c, "uc_update",
               SqlUpdateCase(conn, frame[c].id, frame[c].u, frame[c].t),
               "uc_commit")
    \/ CommitAndReturn(c, "uc_commit", frame[c].rowcount > 0)

\* (mutant) the documents of the case are not deleted
delete_case_keeps_documents(c) ==
    \/ \E id \in KnownIds :
         Call(c, "delete_case", id, Unset, NoUpdate, FALSE, "dc_files")
    \/ Execute(c, "dc_files", SqlDelete(conn, "case_files", "case_id", frame[c].id),
               "dc_case")
    \/ Execute(c, "dc_case", SqlDelete(conn, "cases", "id", frame[c].id), "dc_commit")
    \/ CommitAndReturn(c, "dc_commit", frame[c].rowcount > 0)

delete_case(c) ==
    \/ \E id \in KnownIds :
         Call(c, "delete_case", id, Unset, NoUpdate, FALSE, "dc_files")
    \/ Execute(c, "dc_files", SqlDelete(conn, "case_files", "case_id", frame[c].id),
               "dc_docs")
    \/ Execute(c, "dc_docs", SqlDelete(conn, "case_documents", "case_id", frame[c].id),
               "dc_case")
    \/ Execute(c, "dc_case", SqlDelete(conn, "cases", "id", frame[c].id), "dc_commit")
    \/ CommitAndReturn(c, "dc_commit", frame[c].rowcount > 0)

add_file_to_case(c) ==
    \/ \E id \in KnownIds :
         Call(c, "add_file_to_case", id, Unset, NoUpdate, TRUE, "af_insert")
    \/ Execute(c, "af_insert",
               SqlInsert(conn, "case_files", CaseFilesColumns,
                         {"id", "case_id", "filename", "file_type", "file_size",
                          "upload_date", "file_path"},
                         FileRow(frame[c]), CaseExists(conn, frame[c].id)),
               "af_touch")
    \/ Execute(c, "af_touch", TouchCase(conn, frame[c].id, frame[c].t), "af_commit")
    \/ CommitAndReturn(c, "af_commit", frame[c].newid)

add_document_to_case(c) ==
    \/ \E id \in KnownIds :
         Call(c, "add_document_to_case", id, Unset, NoUpdate, TRUE, "ad_insert")
    \/ Execute(c, "ad_insert",
               SqlInsert(conn, "case_documents", CaseDocumentsColumns,
                         {"id", "case_id", "document_type", "title", "content",
                          "created_date"},
                         DocumentRow(frame[c]), CaseExists(conn, frame[c].id)),
               "ad_touch")
    \/ Execute(c, "ad_touch", TouchCase(conn, frame[c].id, frame[c].t), "ad_commit")
    \/ CommitAndReturn(c, "ad_commit", frame[c].newid)

\* the reads, as functions of what the connection holds
None == [id |-> NoSuchId]

get_case_files(db, case_id) == {r \in db.case_files : r.case_id = case_id}

get_case_documents(db, case_id) == {r \in db.case_documents : r.case_id = case_id}

get_case(db, case_id) ==
    IF ~CaseExists(db, case_id) THEN None
    ELSE LET row == CHOOSE r \in db.cases : r.id = case_id
         IN  [id |-> row.id, row |-> row, files |-> get_case_files(db, case_id),
              documents |-> get_case_documents(db, case_id)]

\* ------------------------------------------------------------- ViolationTracker
\* the dates a caller can give (ISO text, compared as text by ORDER BY)
Dates == 0..MaxDate

\* the event lists a caller can give to create_violation_timeline
EventInputs == {<<>>} \cup {<<d>> : d \in Dates} \cup {<<MaxDate, 0>>}

KnownViolationIds == {NoSuchId} \cup {r.id : r \in conn.violations}

\* violation_id = f"viol_{now:%Y%m%d_%H%M%S}": the second of the call
ViolationRow(f) ==
    [id |-> f.newid, case_id |-> f.id, date_occurred |-> f.date, damages_estimate |-> 0]

\* the row with the two columns that hold the classification
ClassifiedRow(f) ==
    [id |-> f.newid, case_id |-> f.id, date_occurred |-> f.date, damages_estimate |-> 0,
     violation_type |-> f.name, legal_codes |-> f.codes]

EvidenceRow(f) == [id |-> f.newid, violation_id |-> f.id]

\* timeline_id = f"tl_{now:%Y%m%d_%H%M%S}_{len([e for e in events if e])}":
\* the second of the insert and the number of events, the same for every
\* event of the call.
TimelineRow(f) ==
    [id |-> <<f.t, Len(f.events)>>, violation_id |-> f.id, event_date |-> f.events[f.k]]

StrategyRow(f) == [id |-> f.newid, case_id |-> f.id]

\* add_violation for violation types and answers of the client taken from
\* the given sets.  Before the INSERT the client is asked for the merit
\* analysis, whose answer is not used, and, when the table gives no
\* statutes, for the analysis that is searched for statutes: external
\* counts these calls, and codes is ', '.join(statute_codes).  The row that
\* is inserted holds the two columns of the classification when classified.
AddViolation(c, types, analyses, classified) ==
    \/ \E id \in KnownIds, d \in Dates, violation_type \in types, analysis \in analyses :
         LET asks == AsksClient(violation_type)
             statute_codes == _get_applicable_statutes(violation_type, analysis)
         IN  Enter(c, [NoFrame EXCEPT !.op = "add_violation", !.id = id, !.date = d,
                                      !.newid = clock, !.name = violation_type,
                                      !.text = IF asks THEN analysis ELSE <<>>,
                                      !.external = IF asks THEN 2 ELSE 1,
                                      !.codes = JoinWith(statute_codes, <<",", " ">>)],
                   FALSE, "av_insert")
    \/ ExecuteTry(c, "av_insert",
                  SqlInsert(conn, "violations", ViolationsColumns,
                            {"id", "case_id", "violation_type", "legal_codes",
                             "description", "date_occurred", "person_involved",
                             "damages_estimate", "created_date", "last_updated"},
                            IF classified THEN ClassifiedRow(frame[c])
                            ELSE ViolationRow(frame[c]),
                            CaseExists(conn, frame[c].id)),
                  "av_commit")
    \/ CommitAndReturnTry(c, "av_commit", frame[c].newid)

\* violation_data without a 'violation_type': violation_data.get('violation_type', '')
add_violation(c) == AddViolation(c, {<<>>}, {<<>>}, FALSE)

\* the violation types add_violation is given, and what the client answers
\* to the prompt of _get_applicable_statutes
ViolationTypes ==
    {<<"F", "o", "u", "r", "t", "h", " ", "A", "m", "e", "n", "d", "m", "e", "n", "t", " ",
        "V", "i", "o", "l", "a", "t", "i", "o", "n">>,
     <<"C", "i", "v", "i", "l", " ", "R", "i", "g", "h", "t", "s", " ", "V", "i", "o", "l",
         "a", "t", "i", "o", "n">>,
     <<"c", "i", "v", "i", "l">>,
     <<"W", "a", "g", "e", " ", "T", "h", "e", "f", "t">>,
     <<"Z", "o", "n", "i", "n", "g">>}

StatuteAnalyses ==
    {<<"S", "e", "e", " ", "4", "2", " ", "U", ".", "S", ".", "C", ".", " ", "1", "9", "8",
        "3", " ", "\n", "T", "e", "x", "a", "s", " ", "P", "e", "n", "a", "l", " ", "C", "o",
        "d", "e", "\n", "T", "e", "x", "a", "s", " ", "o", "n", "l", "y">>,
     <<"N", "o", "n", "e", ".">>,
     <<"E", "r", "r", "o", "r", ":", " ", "5", "0", "0", " ", "-", " ", "4", "2", " ", "U",
         ".", "S", ".", "C", ".", " ", "a">>,
     <<"E", "r", "r", "o", "r", " ", "g", "e", "n", "e", "r", "a", "t", "i", "n", "g", " ",
         "r", "e", "s", "p", "o", "n", "s", "e", ":", " ", "a">>}

\* column LIKE '%query%': SQLite's LIKE ignores the case of ASCII letters
Like(query, value) == Contains(lower(query), lower(value))

\* the texts search_violations is asked for
SearchTexts == {<<>>, <<"c", "i", "v", "i", "l">>, <<"1", "9", "8", "3">>}

\* ViolationTracker.search_violations(search_query, case_id): one SELECT on
\* the cursor, outside try.  It names the columns statute_code and
\* violation_date and raises when the table does not have them.  k is 1
\* when a case_id is given.
search_violations(c) ==
    \/ \E text \in SearchTexts, id \in KnownIds, given \in 0..1 :
         Enter(c, [NoFrame EXCEPT !.op = "search_violations", !.text = text, !.id = id,
                                  !.k = given],
               FALSE, "sv_select")
    \/ /\ pc[c] = "sv_select"
       /\ c \in busy
       /\ LET f == frame[c]
              known == {"case_id", "description", "violation_type", "statute_code",
                        "violation_date"} \subseteq ViolationsColumns
              hit == IF ~known THEN {}
                     ELSE {r \in conn.violations :
                             /\ f.k = 1 => r.case_id = f.id
                             /\ \/ Like(f.text, r.description)
                                \/ Like(f.text, r.violation_type)
                                \/ Like(f.text, r.statute_code)}
          IN  ret' = [ret EXCEPT ![c] =
                        IF known
                        THEN Outcome(f, "returned",
                                     OrderBy(hit, [r \in hit |-> r.violation_date], TRUE))
                        ELSE Outcome(f, "raised", FALSE)]
       /\ pc' = [pc EXCEPT ![c] = "idle"]
       /\ frame' = [frame EXCEPT ![c] = NoFrame]
       /\ EndCall(c)
       /\ UNCHANGED <<conn, disk, clock, uuids>>

calculate_damages(c) ==
    \/ \E id \in KnownViolationIds :
         Enter(c, [NoFrame EXCEPT !.op = "calculate_damages", !.id = id, !.t = clock],
               FALSE, "cd_update")
    \/ ExecuteTry(c, "cd_update", SqlUpdateDamages(conn, frame[c].id, 1), "cd_commit")
    \/ CommitAndReturnTry(c, "cd_commit", frame[c].id)

add_evidence(c) ==
    \/ \E id \in KnownViolationIds :
         /\ Cardinality(conn.violation_evidence \cup conn.violation_timeline) < MaxRows
         /\ Enter(c, [NoFrame EXCEPT !.op = "add_evidence", !.id = id, !.newid = clock],
                  FALSE, "ae_insert")
    \/ ExecuteTry(c, "ae_insert",
                  SqlInsert(conn, "violation_evidence", ViolationEvidenceColumns,
                            {"id", "violation_id", "evidence_type", "description",
                             "file_path", "credibility_score", "created_date"},
                            EvidenceRow(frame[c]),
                            \E v \in conn.violations : v.id = frame[c].id),
                  "ae_commit")
    \/ CommitAndReturnTry(c, "ae_commit", frame[c].newid)

\* SELECT * FROM violation_timeline WHERE violation_id = ? ORDER BY event_date
SelectTimeline(db, violation_id) ==
    LET rows == {r \in db.violation_timeline : r.violation_id = violation_id}
    IN  OrderBy(rows, [r \in rows |-> r.event_date], FALSE)

create_violation_timeline(c) ==
    \/ \E id \in KnownViolationIds, ev \in EventInputs :
         /\ Cardinality(conn.violation_evidence \cup conn.violation_timeline) + Len(ev)
                <= MaxRows
         /\ Enter(c, [NoFrame EXCEPT !.op = "create_violation_timeline", !.id = id,
                                     !.events = ev, !.k = 1],
                  FALSE, IF ev = <<>> THEN "tl_commit" ELSE "tl_insert")
    \/ Statement(c, "tl_insert",
                 SqlInsert(conn, "violation_timeline", ViolationTimelineColumns,
                           {"id", "violation_id", "event_date", "event_description",
                            "supporting_evidence", "created_date"},
                           TimelineRow(frame[c]),
                           \E v \in conn.violations : v.id = frame[c].id),
                 IF frame[c].k < Len(frame[c].events) THEN "tl_insert" ELSE "tl_commit",
                 [frame[c] EXCEPT !.k = @ + 1], "error")
    \/ Commit(c, "tl_commit", "tl_select", "error")
    \/ /\ pc[c] = "tl_select"
       /\ c \in busy
       /\ \E o \in Outcomes(c) :
            ret' = [ret EXCEPT ![c] =
                      IF o = "raised" THEN Outcome(frame[c], "error", FALSE)
                      ELSE Outcome(frame[c], "returned",
                                   IF o = "done" THEN SelectTimeline(conn, frame[c].id)
                                   ELSE <<>>)]
       /\ pc' = [pc EXCEPT ![c] = "idle"]
       /\ frame' = [frame EXCEPT ![c] = NoFrame]
       /\ EndCall(c)
       /\ UNCHANGED <<conn, disk, clock, uuids>>

\* each violation of the case, most recent first, with its evidence rows and
\* its timeline
get_case_violations(db, case_id) ==
    LET mine == {r \in db.violations : r.case_id = case_id}
        rows == OrderBy(mine, [r \in mine |-> r.date_occurred], TRUE)
    IN  [i \in 1..Len(rows) |->
            [violation |-> rows[i],
             evidence |-> {e \in db.violation_evidence : e.violation_id = rows[i].id},
             timeline |-> SelectTimeline(db, rows[i].id)]]

\* SELECT * FROM cases ORDER BY last_modified DESC
get_all_cases(db) == OrderBy(db.cases, [r \in db.cases |-> r.last_modified], TRUE)

\* ------------------------------------------------------------- NuclearStrategies
_store_strategy(c) ==
    \/ \E id \in KnownIds :
         Enter(c, [NoFrame EXCEPT !.op = "_store_strategy", !.id = id, !.newid = clock],
               FALSE, "ss_insert")
    \/ ExecuteTry(c, "ss_insert",
                  SqlInsert(conn, "nuclear_strategies", NuclearStrategiesColumns,
                            {"id", "case_id", "strategy_type", "situation_description",
                             "strategy_content", "risk_assessment", "precedent_cases",
                             "created_date", "status"},
                            StrategyRow(frame[c]), CaseExists(conn, frame[c].id)),
                  "ss_commit")
    \/ CommitAndReturnTry(c, "ss_commit", frame[c].newid)

\* ------------------------------------------------------------- LegalAuthority
Citations == {<<"a", " ", "v", " ", "b">>, <<"b", " ", "v", " ", "a">>, <<"A", " ", "v", " ",
    "b">>}

Summaries == {<<"a", " ", "b">>, <<"b">>}

\* authority_id = f"auth_{now:%Y%m%d_%H%M%S}": the second of the call
AuthorityRow(f) ==
    [id |-> f.newid, citation |-> f.citation, title |-> <<>>, summary |-> f.summary,
     verification_status |-> IF f.verified THEN "verified" ELSE "unverified",
     authority_type |-> "Case Law", relevance_score |-> Quotient(1, 2),
     created_date |-> f.t]

\* The try block as one step: the INSERT OR REPLACE and, when it did not
\* raise, self.db.commit().  Whatever happens the method returns None: its
\* except clause swallows every exception.  k tells the call that follows
\* a call for the same citation with another summary (2) from the others (1).
_add_authority_to_database(c) ==
    \/ \E ci \in Citations, su \in Summaries, ve \in BOOLEAN :
         Enter(c, [NoFrame EXCEPT !.op = "_add_authority_to_database", !.citation = ci,
                                  !.summary = su, !.verified = ve, !.newid = clock,
                                  !.k = IF /\ ret[c].op = "_add_authority_to_database"
                                           /\ ret[c].citation = ci
                                           /\ ret[c].summary # su
                                        THEN 2 ELSE 1],
               FALSE, "aa_insert")
    \/ /\ pc[c] = "aa_insert"
       /\ c \in busy
       /\ \E o \in Outcomes(c) :
            LET q == Apply(o, SqlInsertOrReplace(
                                 conn, "legal_authorities", LegalAuthoritiesColumns,
                                 {"id", "citation", "title", "summary", "source_url",
                                  "verification_status", "authority_type", "jurisdiction",
                                  "relevance_score", "last_verified", "created_date"},
                                 AuthorityRow(frame[c]), {"citation"}))
            IN  /\ conn' = q.db
                /\ disk' = IF q.ok THEN q.db ELSE disk
                /\ ret' = [ret EXCEPT ![c] =
                             Outcome(frame[c], IF q.ok THEN "returned" ELSE "error", FALSE)]
       /\ pc' = [pc EXCEPT ![c] = "idle"]
       /\ frame' = [frame EXCEPT ![c] = NoFrame]
       /\ EndCall(c)
       /\ UNCHANGED <<clock, uuids>>

\* the overlap divided by the number of words of the text, not of the query
_calculate_relevance_of_text(query, text) ==
    IF query = <<>> \/ text = <<>> THEN Zero
    ELSE LET query_words == ToSet(split(lower(query)))
             text_words == ToSet(split(lower(text)))
         IN  IF query_words = {} THEN Zero
             ELSE IF text_words = {} THEN Zero
             ELSE Min(Quotient(Cardinality(query_words \cap text_words),
                               Cardinality(text_words)), One)

_calculate_relevance(query, text) ==
    IF query = <<>> \/ text = <<>> THEN Zero
    ELSE LET query_words == ToSet(split(lower(query)))
             text_words == ToSet(split(lower(text)))
         IN  IF query_words = {} THEN Zero
             ELSE Min(Quotient(Cardinality(query_words \cap text_words),
                               Cardinality(query_words)), One)

\* A dict of search_authority's list: the keys it has and, for those the
\* callers read, their values ('' and 0 standing for an absent key).
Dict(keys, citation, summary, relevance_score) ==
    [keys |-> keys, citation |-> citation, summary |-> summary,
     relevance_score |-> relevance_score]

EmptyDict == Dict({}, <<>>, <<>>, Zero)

\* {'error': "..."}
ErrorDict == Dict({"error"}, <<>>, <<>>, Zero)

\* fewer local results than this and the online search is made
MinLocalResults == 5

\* unique_results[:10]
MaxResults == 10

\* LIMIT 10
LocalLimit == 10

\* authorities[:10]
MaxOnline == 10

\* The SELECT of _search_local_database: it raises when a column it names is
\* not in the table; last_verified is the time _add_authority_to_database
\* writes to created_date as well.
_search_local_database(db, query, search_type) ==
    IF ~({"citation", "title", "summary", "authority_type", "verification_status",
          "relevance_score", "last_verified"} \subseteq LegalAuthoritiesColumns)
    THEN [ok |-> FALSE, rows |-> <<>>]
    ELSE LET hit == {r \in db.legal_authorities :
                        /\ \/ Like(query, r.citation)
                           \/ Like(query, r.title)
                           \/ Like(query, r.summary)
                        /\ r.authority_type = search_type
                        /\ r.verification_status = "verified"}
             rows == OrderBy(hit, [r \in hit |->
                                     ((r.relevance_score.num * 100) \div r.relevance_score.den)
                                         * (MaxClock + 1) + r.created_date], TRUE)
         IN  [ok |-> TRUE,
              rows |-> [i \in 1..Len(Truncate(rows, LocalLimit)) |->
                          Dict(LegalAuthoritiesColumns, rows[i].citation, rows[i].summary,
                               rows[i].relevance_score)]]

\* the loop of _search_online_authorities over the lines of the response
RECURSIVE ParseAuthorities(_, _, _)
ParseAuthorities(lines, authorities, current_authority) ==
    IF lines = <<>>
    THEN IF current_authority.keys # {} THEN Append(authorities, current_authority)
         ELSE authorities
    ELSE LET line == strip(Head(lines))
         IN  IF Contains(<<"v", ".">>, line) \/ Contains(<<"C", "i", "t", "a", "t", "i", "o",
             "n", ":">>, line)
             THEN ParseAuthorities(
                      Tail(lines),
                      IF current_authority.keys # {}
                      THEN Append(authorities, current_authority) ELSE authorities,
                      Dict({"citation", "summary", "relevance"},
                           strip(Remove(line, <<"C", "i", "t", "a", "t", "i", "o", "n",
                               ":">>)), <<>>, Zero))
             ELSE IF Contains(<<"S", "u", "m", "m", "a", "r", "y",
                 ":">>, line) \/ Contains(<<"D", "e", "s", "c", "r", "i", "p", "t", "i", "o",
                 "n", ":">>, line)
             THEN ParseAuthorities(
                      Tail(lines), authorities,
                      [current_authority EXCEPT
                          !.keys = @ \cup {"summary"},
                          !.summary = strip(Remove(Remove(line, <<"S", "u", "m", "m", "a",
                              "r", "y", ":">>), <<"D", "e", "s", "c", "r", "i", "p", "t", "i",
                              "o", "n", ":">>))])
             ELSE IF Contains(<<"R", "e", "l", "e", "v", "a", "n", "c", "e", ":">>, line)
             THEN ParseAuthorities(Tail(lines), authorities,
                                   [current_authority EXCEPT !.keys = @ \cup {"relevance"}])
             ELSE ParseAuthorities(Tail(lines), authorities, current_authority)

\* result is what the client answered; the client returns a string whatever
\* happens to the request
_search_online_authorities(result) ==
    Truncate(ParseAuthorities(SplitLines(result), <<>>, EmptyDict), MaxOnline)

\* the loop of search_authority that keeps the first dict of each citation
RECURSIVE Deduplicate(_, _, _)
Deduplicate(all_results, seen_citations, unique_results) ==
    IF all_results = <<>> THEN unique_results
    ELSE LET result == Head(all_results)
             citation == strip(result.citation)
         IN  IF citation # <<>> /\ citation \notin seen_citations
             THEN Deduplicate(Tail(all_results), seen_citations \cup {citation},
                              Append(unique_results, result))
             ELSE Deduplicate(Tail(all_results), seen_citations, unique_results)

\* what the client may answer to the prompt of _search_online_authorities
AuthorityResponses ==
    {<<>>,
     <<"a", " ", "v", ".", " ", "b", "\n", "S", "u", "m", "m", "a", "r", "y", ":", " ", "a",
         " ", "b", "\n", "C", "i", "t", "a", "t", "i", "o", "n", ":", " ", "b", " ", "v", " ",
         "a">>,
     <<"E", "r", "r", "o", "r", ":", " ", "5", "0", "0", " ", "-", " ", "a">>}

\* the queries and the search types search_authority is called with
Queries == {<<"a">>, <<"b">>, <<"a", " ", "b">>}

SearchTypes == {"Case Law", "Statute"}

\* The body of search_authority as one step: the local SELECT, the online
\* search when it gave fewer than MinLocalResults rows, and the except
\* clause that turns any exception into a list of one error dict.
search_authority(c) ==
    \/ \E q \in Queries, ty \in SearchTypes :
         Enter(c, [NoFrame EXCEPT !.op = "search_authority", !.query = q, !.name = ty],
               FALSE, "sa_select")
    \/ /\ pc[c] = "sa_select"
       /\ c \in busy
       /\ \E o \in Outcomes(c), result \in AuthorityResponses :
            LET local == _search_local_database(conn, frame[c].query, frame[c].name)
                raised == ~local.ok \/ o = "raised"
                online == Len(local.rows) < MinLocalResults
                online_results == _search_online_authorities(result)
                found == IF raised THEN <<ErrorDict>>
                         ELSE IF online
                         THEN Truncate(Deduplicate(local.rows \o online_results, {}, <<>>),
                                       MaxResults)
                         ELSE local.rows
            IN  ret' = [ret EXCEPT ![c] =
                          Outcome([frame[c] EXCEPT
                                      !.external = IF ~raised /\ online THEN 1 ELSE 0],
                                  "returned", found)]
       /\ pc' = [pc EXCEPT ![c] = "idle"]
       /\ frame' = [frame EXCEPT ![c] = NoFrame]
       /\ EndCall(c)
       /\ UNCHANGED <<conn, disk, clock, uuids>>

\* base_queries.get(doc_type, ["legal precedent", "case law"])
base_queries(doc_type) ==
    IF doc_type = "Complaint"
    THEN <<<<"c", "i", "v", "i", "l", " ", "r", "i", "g", "h", "t", "s", " ", "v", "i", "o",
        "l", "a", "t", "i", "o", "n", "s">>,
           <<"s", "e", "c", "t", "i", "o", "n", " ", "1", "9", "8", "3">>,
           <<"c", "o", "n", "s", "t", "i", "t", "u", "t", "i", "o", "n", "a", "l", " ", "c",
               "l", "a", "i", "m", "s">>>>
    ELSE IF doc_type = "Motion to Dismiss"
    THEN <<<<"m", "o", "t", "i", "o", "n", " ", "t", "o", " ", "d", "i", "s", "m", "i", "s",
        "s", " ", "s", "t", "a", "n", "d", "a", "r", "d", "s">>,
           <<"1", "2", "(", "b", ")", "(", "6", ")", " ", "m", "o", "t", "i", "o", "n">>,
           <<"f", "a", "i", "l", "u", "r", "e", " ", "t", "o", " ", "s", "t", "a", "t", "e",
               " ", "c", "l", "a", "i", "m">>>>
    ELSE IF doc_type = "Motion for Summary Judgment"
    THEN <<<<"s", "u", "m", "m", "a", "r", "y", " ", "j", "u", "d", "g", "m", "e", "n", "t",
        " ", "s", "t", "a", "n", "d", "a", "r", "d", "s">>,
           <<"g", "e", "n", "u", "i", "n", "e", " ", "i", "s", "s", "u", "e", " ", "m", "a",
               "t", "e", "r", "i", "a", "l", " ", "f", "a", "c", "t">>,
           <<"F", "e", "d", " ", "R", "u", "l", "e", " ", "5", "6">>>>
    ELSE IF doc_type = "Response"
    THEN <<<<"r", "e", "s", "p", "o", "n", "s", "e", " ", "b", "r", "i", "e", "f">>,
           <<"o", "p", "p", "o", "s", "i", "t", "i", "o", "n", " ", "m", "o", "t", "i", "o",
               "n">>,
           <<"c", "o", "u", "n", "t", "e", "r", "-", "a", "r", "g", "u", "m", "e", "n", "t",
               "s">>>>
    ELSE IF doc_type = "Discovery"
    THEN <<<<"d", "i", "s", "c", "o", "v", "e", "r", "y", " ", "r", "u", "l", "e", "s">>,
           <<"i", "n", "t", "e", "r", "r", "o", "g", "a", "t", "o", "r", "i", "e", "s">>,
           <<"d", "o", "c", "u", "m", "e", "n", "t", " ", "r", "e", "q", "u", "e", "s", "t",
               "s">>>>
    ELSE <<<<"l", "e", "g", "a", "l", " ", "p", "r", "e", "c", "e", "d", "e", "n", "t">>,
           <<"c", "a", "s", "e", " ", "l", "a", "w">>>>

\* case_params as the keys it has and their values
CaseParams(keys, case_type, jurisdiction) ==
    [keys |-> keys, case_type |-> case_type, jurisdiction |-> jurisdiction]

_build_search_query(doc_type, case_params) ==
    LET case_type == IF "case_type" \in case_params.keys THEN case_params.case_type ELSE <<>>
        jurisdiction == IF "jurisdiction" \in case_params.keys
                        THEN case_params.jurisdiction ELSE <<"T", "e", "x", "a", "s">>
    IN  base_queries(doc_type)
            \o (IF case_type # <<>> THEN <<case_type>> ELSE <<>>)
            \o (IF jurisdiction # <<>> THEN <<jurisdiction \o <<" ", "l", "a", "w">>>> ELSE <<>>)

\* ' '.join(strings)
RECURSIVE Join(_)
Join(strings) ==
    IF strings = <<>> THEN <<>>
    ELSE IF Len(strings) = 1 THEN Head(strings)
    ELSE Head(strings) \o <<" ">> \o Join(Tail(strings))

\* The loop of get_relevant_authorities that keeps the first dict of each
\* citation and gives it the relevance of its summary to the joined queries.
RECURSIVE UniqueAuthorities(_, _, _, _)
UniqueAuthorities(all_authorities, seen_citations, unique_authorities, joined) ==
    IF all_authorities = <<>> THEN unique_authorities
    ELSE LET authority == Head(all_authorities)
             citation == authority.citation
         IN  IF citation # <<>> /\ citation \notin seen_citations
             THEN UniqueAuthorities(
                      Tail(all_authorities), seen_citations \cup {citation},
                      Append(unique_authorities,
                             [authority EXCEPT
                                 !.keys = @ \cup {"relevance_score"},
                                 !.relevance_score =
                                     _calculate_relevance(joined, authority.summary)]),
                      joined)
             ELSE UniqueAuthorities(Tail(all_authorities), seen_citations,
                                    unique_authorities, joined)

\* no sort: the list is left in the order the searches gave
Unsorted(authorities) == authorities

\* list.sort(key=relevance_score, reverse=True): dicts of equal score keep
\* the order they had
RECURSIVE SortByRelevance(_)
SortByRelevance(authorities) ==
    IF authorities = <<>> THEN <<>>
    ELSE LET rest == SortByRelevance(SubSeq(authorities, 1, Len(authorities) - 1))
             last == authorities[Len(authorities)]
             before == Cardinality({i \in 1..Len(rest) :
                                       AtMost(last.relevance_score, rest[i].relevance_score)})
         IN  SubSeq(rest, 1, before) \o <<last>> \o SubSeq(rest, before + 1, Len(rest))

\* unique_authorities[:8]
MaxRelevant == 8

\* the doc_type and case_params get_relevant_authorities is called with
RankingInputs ==
    {<<"Complaint", CaseParams({}, <<>>, <<>>)>>,
     <<"Letter", CaseParams({"case_type", "jurisdiction"}, <<"c", "i", "v", "i", "l", " ",
         "r", "i", "g", "h", "t", "s">>, <<>>)>>}

\* The body of get_relevant_authorities.  frame.found is what its
\* search_authority calls, one for each query, returned, in the order of
\* the calls; k counts these calls.
get_relevant_authorities(c) ==
    /\ pc[c] = "gr_rank"
    /\ LET search_queries == _build_search_query(frame[c].name, frame[c].params)
           unique_authorities ==
               UniqueAuthorities(frame[c].found, {}, <<>>, Join(search_queries))
       IN  ret' = [ret EXCEPT ![c] =
                     Outcome([frame[c] EXCEPT !.k = Len(search_queries)], "returned",
                             Truncate(SortByRelevance(unique_authorities), MaxRelevant))]
    /\ pc' = [pc EXCEPT ![c] = "idle"]
    /\ frame' = [frame EXCEPT ![c] = NoFrame]
    /\ UNCHANGED <<conn, disk, lock, busy, raced, clock, uuids>>

\* what the client may answer to the prompt of _verify_citation_online
VerificationResponses ==
    {<<"V", "e", "r", "i", "f", "i", "e", "d", ".">>,
     <<"N", "o", "t", " ", "f", "o", "u", "n", "d", ".">>,
     <<"E", "r", "r", "o", "r", ":", " ", "5", "0", "0", " ", "-", " ", "a">>}

\* 'verified' in text.lower() and 'not found' not in text.lower()
_verify_citation_online(verification_text) ==
    /\ Contains(<<"v", "e", "r", "i", "f", "i", "e", "d">>, lower(verification_text))
    /\ ~Contains(<<"n", "o", "t", " ", "f", "o", "u", "n", "d">>, lower(verification_text))

\* The try block of verify_citation as one step: the SELECT by citation,
\* the dict built from the row it gave (which reads the row's last_verified)
\* or else the online verification and, when that is positive, the body of
\* _add_authority_to_database.  k tells the call that follows a positive
\* verification of the same citation (2) from the others (1).
verify_citation(c) ==
    \/ \E ci \in Citations :
         Enter(c, [NoFrame EXCEPT !.op = "verify_citation", !.citation = ci,
                                  !.verified = TRUE, !.newid = clock,
                                  !.k = IF /\ ret[c].op = "verify_citation"
                                           /\ ret[c].citation = ci
                                           /\ ret[c].value.verified
                                        THEN 2 ELSE 1],
               FALSE, "vc_select")
    \/ /\ pc[c] = "vc_select"
       /\ c \in busy
       /\ \E o \in Outcomes(c), verification_text \in VerificationResponses :
            LET local_result == {r \in conn.legal_authorities :
                                    /\ r.citation = frame[c].citation
                                    /\ r.verification_status = "verified"}
                verified == _verify_citation_online(verification_text)
                q == IF local_result = {} /\ o # "raised" /\ verified
                     THEN Apply(o, SqlInsertOrReplace(
                                       conn, "legal_authorities", LegalAuthoritiesColumns,
                                       {"id", "citation", "title", "summary", "source_url",
                                        "verification_status", "authority_type",
                                        "jurisdiction", "relevance_score", "last_verified",
                                        "created_date"},
                                       AuthorityRow(frame[c]), {"citation"}))
                     ELSE Raised(conn)
                answer == IF o = "raised"
                          THEN [verified |-> FALSE, source |-> "error"]
                          ELSE IF local_result # {}
                          THEN IF "last_verified" \in LegalAuthoritiesColumns
                               THEN [verified |-> TRUE, source |-> "local_database"]
                               ELSE [verified |-> FALSE, source |-> "error"]
                          ELSE [verified |-> verified, source |-> "online_verification"]
            IN  /\ conn' = q.db
                /\ disk' = IF q.ok THEN q.db ELSE disk
                /\ ret' = [ret EXCEPT ![c] =
                             Outcome([frame[c] EXCEPT
                                         !.external = IF answer.source = "online_verification"
                                                      THEN 1 ELSE 0],
                                     "returned", answer)]
       /\ pc' = [pc EXCEPT ![c] = "idle"]
       /\ frame' = [frame EXCEPT ![c] = NoFrame]
       /\ EndCall(c)
       /\ UNCHANGED <<clock, uuids>>

\* the strings given to _calculate_relevance
Alphabet == {"a", "b", "A", " "}

Strings == UNION {[1..n -> Alphabet] : n \in 0..MaxLen}

\* _calculate_relevance(query, text) is evaluated and its value returned
calculate_relevance(c) ==
    /\ pc[c] = "cr_apply"
    /\ pc' = [pc EXCEPT ![c] = "idle"]
    /\ ret' = [ret EXCEPT ![c] =
                 Outcome(frame[c], "returned",
                         _calculate_relevance(frame[c].query, frame[c].text))]
    /\ frame' = [frame EXCEPT ![c] = NoFrame]
    /\ UNCHANGED <<conn, disk, lock, busy, raced, clock, uuids>>

\* ------------------------------------------------------------- Database
\* Database.commit(), called by a caller of its own accord
commit(c) ==
    \/ Enter(c, [NoFrame EXCEPT !.op = "commit"], FALSE, "db_commit")
    \/ Finish(c, "db_commit", TRUE, "raised")

\* Database.rollback(): everything pending on the connection is dropped
rollback(c) ==
    \/ Enter(c, [NoFrame EXCEPT !.op = "rollback"], FALSE, "db_rollback")
    \/ /\ pc[c] = "db_rollback"
       /\ c \in busy
       /\ \E o \in Outcomes(c) :
            /\ conn' = IF o = "done" THEN disk ELSE conn
            /\ ret' = [ret EXCEPT ![c] =
                         IF o = "raised" THEN Outcome(frame[c], "raised", FALSE)
                         ELSE Outcome(frame[c], "returned", TRUE)]
       /\ pc' = [pc EXCEPT ![c] = "idle"]
       /\ frame' = [frame EXCEPT ![c] = NoFrame]
       /\ EndCall(c)
       /\ UNCHANGED <<disk, clock, uuids>>

\* cursor.executemany(query, params_list) for an INSERT INTO cases: the rows
\* are inserted one after the other; the first one that raises ends the
\* call, and the rows before it stay written on the connection.
RECURSIVE ExecuteMany(_, _, _)
ExecuteMany(db, f, ids) ==
    IF ids = <<>> THEN StmtResult(db, TRUE, 0)
    ELSE LET q == SqlInsert(db, "cases", CasesColumns,
                            {"id", "name", "type", "created_date", "last_modified"},
                            CaseRow([f EXCEPT !.newid = Head(ids)]), TRUE)
         IN  IF q.ok THEN ExecuteMany(q.db, f, Tail(ids)) ELSE Raised(db)

\* the batches execute_many is given: the ids of the rows to insert
Batches == UNION {[1..n -> 1..MaxRows] : n \in 1..(MaxRows + 1)}

\* Database.execute_many under the lock: executemany and, when it did not
\* raise, connection.commit().  written holds the ids of the rows the call
\* has put on the connection.
execute_many(c) ==
    \/ \E ids \in Batches :
         Enter(c, [NoFrame EXCEPT !.op = "execute_many", !.events = ids, !.name = "A",
                                  !.t = clock],
               FALSE, "em_execute")
    \/ /\ pc[c] = "em_execute"
       /\ c \in busy
       /\ LET q == IF Usable(conn) THEN ExecuteMany(conn, frame[c], frame[c].events)
                   ELSE Raised(conn)
              g == [frame[c] EXCEPT
                       !.written = IF Usable(conn)
                                   THEN {r.id : r \in q.db.cases \ conn.cases} ELSE {}]
          IN  /\ conn' = q.db
              /\ disk' = IF q.ok THEN q.db ELSE disk
              /\ ret' = [ret EXCEPT ![c] =
                           Outcome(g, IF q.ok THEN "returned" ELSE "raised", q.ok)]
       /\ pc' = [pc EXCEPT ![c] = "idle"]
       /\ frame' = [frame EXCEPT ![c] = NoFrame]
       /\ EndCall(c)
       /\ UNCHANGED <<clock, uuids>>

\* Database.execute_update under the lock, for an INSERT INTO cases of one
\* row: execute and, when it did not raise, connection.commit()
execute_update(c) ==
    \/ \E id \in 1..MaxRows :
         Enter(c, [NoFrame EXCEPT !.op = "execute_update", !.events = <<id>>, !.name = "A",
                                  !.t = clock],
               FALSE, "eu_execute")
    \/ /\ pc[c] = "eu_execute"
       /\ c \in busy
       /\ LET q == IF Usable(conn) THEN ExecuteMany(conn, frame[c], frame[c].events)
                   ELSE Raised(conn)
              g == [frame[c] EXCEPT
                       !.written = IF Usable(conn)
                                   THEN {r.id : r \in q.db.cases \ conn.cases} ELSE {}]
          IN  /\ conn' = q.db
              /\ disk' = IF q.ok THEN q.db ELSE disk
              /\ ret' = [ret EXCEPT ![c] =
                           Outcome(g, IF q.ok THEN "returned" ELSE "raised", q.ok)]
       /\ pc' = [pc EXCEPT ![c] = "idle"]
       /\ frame' = [frame EXCEPT ![c] = NoFrame]
       /\ EndCall(c)
       /\ UNCHANGED <<clock, uuids>>

\* what restore_database can find at backup_path
Backups ==
    {Missing, Directory, NotADatabase, EmptyDb,
     [EmptyDb EXCEPT !.cases = {CaseRow([NoFrame EXCEPT !.newid = 1, !.name = "B"])}]}

\* Database.restore_database(backup_path).  Without a file at backup_path it
\* returns False before the lock.  Otherwise, under the lock:
\* connection.close() (what was pending is dropped), os.rename of the live
\* file to .old, shutil.copy2 (raises on a directory), _initialize_database
\* (connects, then raises in _create_all_tables on a file that is not a
\* database).  The except clause calls log_error, whose execute_update
\* raises on the closed or unusable connection, and returns False.
restore_database(c) ==
    \/ \E b \in Backups :
         Enter(c, [NoFrame EXCEPT !.op = "restore_database", !.backup = b], FALSE,
               IF b = Missing THEN "rs_exists" ELSE "rs_restore")
    \/ /\ pc[c] = "rs_exists"
       /\ c \in busy
       /\ ret' = [ret EXCEPT ![c] = Outcome(frame[c], "returned", FALSE)]
       /\ pc' = [pc EXCEPT ![c] = "idle"]
       /\ frame' = [frame EXCEPT ![c] = NoFrame]
       /\ EndCall(c)
       /\ UNCHANGED <<conn, disk, clock, uuids>>
    \/ /\ pc[c] = "rs_restore"
       /\ c \in busy
       /\ LET b == frame[c].backup
              copied == b # Directory
              opened == copied /\ b # NotADatabase
          IN  /\ disk' = IF copied THEN b ELSE Missing
              /\ conn' = IF opened THEN b ELSE IF copied THEN NotADatabase ELSE Closed
              /\ ret' = [ret EXCEPT ![c] = Outcome(frame[c], "returned", opened)]
       /\ pc' = [pc EXCEPT ![c] = "idle"]
       /\ frame' = [frame EXCEPT ![c] = NoFrame]
       /\ EndCall(c)
       /\ UNCHANGED <<clock, uuids>>

\* how a unit of work ends: it completes, or it raises an exception that is
\* an Exception, or one that is not (KeyboardInterrupt, SystemExit, GeneratorExit)
Endings == {"completed", "Exception", "BaseException"}

\* with db.get_transaction() as connection: <unit of work>.  The lock is
\* taken, the unit of work writes to the connection it is given (written
\* holds the ids of the rows it has inserted), and when it ends the
\* connection is committed, or rolled back by the except Exception clause,
\* and the with statement releases the lock.
get_transaction(c) ==
    \/ Enter(c, [NoFrame EXCEPT !.op = "get_transaction"], FALSE, "gt_lock")
    \/ /\ pc[c] = "gt_lock"
       /\ lock = NoCaller
       /\ lock' = c
       /\ pc' = [pc EXCEPT ![c] = "gt_work"]
       /\ UNCHANGED <<conn, disk, busy, raced, frame, ret, clock, uuids>>
    \/ /\ pc[c] = "gt_work"
       /\ uuids < MaxUuid
       /\ uuids' = uuids + 1
       /\ conn' = SqlInsert(conn, "cases", CasesColumns,
                            {"id", "name", "type", "created_date", "last_modified"},
                            CaseRow([frame[c] EXCEPT !.newid = uuids + 1, !.name = "A",
                                                     !.t = clock]),
                            TRUE).db
       /\ frame' = [frame EXCEPT ![c].written = @ \cup {uuids + 1}]
       /\ UNCHANGED <<disk, lock, busy, raced, pc, ret, clock>>
    \/ /\ pc[c] = "gt_work"
       /\ \E ending \in Endings :
            /\ disk' = IF ending = "completed" THEN conn ELSE disk
            /\ conn' = IF ending = "Exception" THEN disk ELSE conn
            /\ ret' = [ret EXCEPT ![c] =
                         Outcome(frame[c],
                                 IF ending = "completed" THEN "returned" ELSE "raised",
                                 ending = "completed")]
       /\ lock' = NoCaller
       /\ pc' = [pc EXCEPT ![c] = "idle"]
       /\ frame' = [frame EXCEPT ![c] = NoFrame]
       /\ UNCHANGED <<busy, raced, clock, uuids>>

\* Inside the unit of work the caller calls a store operation of the
\* Database (execute_update, which log_error calls as well): the call has
\* to take the lock, which is a threading.Lock and not reentrant, before
\* its statement runs.
execute_update_in_transaction(c) ==
    /\ pc[c] = "gt_work"
    /\ \E id \in 1..MaxRows :
         frame' = [frame EXCEPT ![c].events = <<id>>, ![c].name = "A", ![c].t = clock]
    /\ pc' = [pc EXCEPT ![c] = "eu_execute"]
    /\ UNCHANGED <<conn, disk, lock, busy, raced, ret, clock, uuids>>

\* ------------------------------------------------------------- clock
Tick ==
    /\ clock < MaxClock
    /\ clock' = clock + 1
    /\ UNCHANGED <<conn, disk, lock, busy, raced, pc, frame, ret, uuids>>

Init ==
    /\ conn = EmptyDb
    /\ disk = EmptyDb
    /\ lock = NoCaller
    /\ busy = {}
    /\ raced = {}
    /\ pc = [c \in Callers |-> "idle"]
    /\ frame = [c \in Callers |-> NoFrame]
    /\ ret = [c \in Callers |-> NoRet]
    /\ clock = 1
    /\ uuids = 0

\* _calculate_relevance is about to be called with any two strings
InitRelevance ==
    /\ conn = EmptyDb
    /\ disk = EmptyDb
    /\ lock = NoCaller
    /\ busy = {}
    /\ raced = {}
    /\ \E q \in Strings, s \in Strings :
         frame = [c \in Callers |->
                    IF c = Main
                    THEN [NoFrame EXCEPT !.op = "_calculate_relevance", !.query = q,
                                         !.text = s]
                    ELSE NoFrame]
    /\ pc = [c \in Callers |-> IF c = Main THEN "cr_apply" ELSE "idle"]
    /\ ret = [c \in Callers |-> NoRet]
    /\ clock = 1
    /\ uuids = 0

NextRelevance == calculate_relevance(Main)

SpecRelevance == InitRelevance /\ [][NextRelevance]_vars

\* the i-th citation the searches give
Digits == <<"1", "2", "3", "4", "5", "6", "7", "8", "9", "0">>

Cite(i) == <<"a", " ", "v", ".", " ">> \o <<Digits[((i - 1) % Len(Digits)) + 1]>>
              \o (IF i > Len(Digits) THEN <<"x">> ELSE <<>>)

\* What the search_authority calls of one get_relevant_authorities can have
\* returned, taken together: n dicts, the i-th one holding the i-th citation
\* and one of two summaries, but for one dict at most, which is an error
\* dict, a dict with an empty citation, or a dict with the first citation again.
\* All the dicts but two at most have the same summary.
MaxOther == 2

Patterns(n) ==
    {high \in SUBSET (1..n) :
        Cardinality(high) <= MaxOther \/ Cardinality(high) >= n - MaxOther}

Found(n, high, odd, kind) ==
    [i \in 1..n |->
        LET summary == IF i \in high THEN <<"C", "i", "v", "i", "l", " ", "r", "i", "g", "h",
            "t", "s", " ", "l", "a", "w">> ELSE <<>>
        IN  IF i # odd THEN Dict({"citation", "summary", "relevance"}, Cite(i), summary, Zero)
            ELSE IF kind = "error" THEN ErrorDict
            ELSE IF kind = "blank"
            THEN Dict({"citation", "summary", "relevance"}, <<>>, summary, Zero)
            ELSE Dict({"citation", "summary", "relevance"}, Cite(1), summary, Zero)]

\* get_relevant_authorities is about to rank what its searches returned
InitRanking ==
    /\ conn = EmptyDb
    /\ disk = EmptyDb
    /\ lock = NoCaller
    /\ busy = {}
    /\ raced = {}
    /\ \E input \in RankingInputs, n \in 0..MaxFound :
         \E high \in Patterns(n), odd \in 0..n, kind \in {"error", "blank", "again"} :
            /\ odd = 0 => kind = "error"
            /\ frame = [c \in Callers |->
                          IF c = Main
                          THEN [NoFrame EXCEPT !.op = "get_relevant_authorities",
                                               !.name = input[1], !.params = input[2],
                                               !.found = Found(n, high, odd, kind)]
                          ELSE NoFrame]
    /\ pc = [c \in Callers |-> IF c = Main THEN "gr_rank" ELSE "idle"]
    /\ ret = [c \in Callers |-> NoRet]
    /\ clock = 1
    /\ uuids = 0

NextRanking == get_relevant_authorities(Main)

SpecRanking == InitRanking /\ [][NextRanking]_vars

\* One caller at a time: the CaseManager's methods called in sequence.
NextCases ==
    \/ Tick
    \/ BeginCall(Main)
    \/ create_case(Main)
    \/ update_case(Main)
    \/ delete_case(Main)
    \/ add_file_to_case(Main)
    \/ add_document_to_case(Main)

SpecCases == Init /\ [][NextCases]_vars

\* One caller at a time: cases are created, and violations, evidence,
\* timelines, damages and strategies are recorded for them.
NextViolations ==
    \/ Tick
    \/ BeginCall(Main)
    \/ create_case(Main)
    \/ add_violation(Main)
    \/ add_evidence(Main)
    \/ create_violation_timeline(Main)

SpecViolations == Init /\ [][NextViolations]_vars

\* One caller at a time: cases are created, violations are recorded for them,
\* and damages and strategies are stored.
NextDamages ==
    \/ Tick
    \/ BeginCall(Main)
    \/ create_case(Main)
    \/ add_violation(Main)
    \/ calculate_damages(Main)
    \/ _store_strategy(Main)

SpecDamages == Init /\ [][NextDamages]_vars

\* One caller at a time: verified authorities are added to the local database.
NextAuthorities ==
    \/ Tick
    \/ BeginCall(Main)
    \/ _add_authority_to_database(Main)
    \/ search_authority(Main)
    \/ verify_citation(Main)

SpecAuthorities == Init /\ [][NextAuthorities]_vars

\* One caller at a time: violations of every type are added.
NextStatutes ==
    \/ BeginCall(Main)
    \/ AddViolation(Main, ViolationTypes, StatuteAnalyses, TRUE)
    \/ search_violations(Main)

SpecStatutes == Init /\ [][NextStatutes]_vars

\* The callers share the Database: each creates cases and adds files to them.
NextAppend ==
    \E c \in Callers :
        \/ BeginCall(c)
        \/ create_case(c)
        \/ add_file_to_case(c)

SpecAppend == Init /\ [][NextAppend]_vars

\* The callers share the Database: cases are created, given files and
\* deleted, while any caller may commit or roll back the connection.
NextShared ==
    \/ \E c \in Callers : BeginCall(c)
    \/ create_case(Main)
    \/ add_file_to_case(Main)
    \/ add_document_to_case(Main)
    \/ delete_case(Main)
    \/ commit(Other)
    \/ rollback(Other)

SpecShared == Init /\ [][NextShared]_vars

\* one caller that writes rows and restores the store from a backup
NextRestore ==
    \/ Tick
    \/ BeginCall(Main)
    \/ execute_update(Main)
    \/ restore_database(Main)

SpecRestore == Init /\ [][NextRestore]_vars

\* One caller at a time: cases are created, violations are recorded for them,
\* and cases are deleted.
NextDeletion ==
    \/ Tick
    \/ BeginCall(Main)
    \/ create_case(Main)
    \/ add_violation(Main)
    \/ delete_case(Main)

SpecDeletion == Init /\ [][NextDeletion]_vars

\* A caller runs units of work, in which it may call a store operation, and
\* store operations of its own, while another caller commits.  A call that
\* can take a step takes it, a caller that waits for the lock gets it when
\* it is free again and again, and every unit of work comes to its end.
NextLock ==
    \/ \E c \in Callers : BeginCall(c)
    \/ get_transaction(Main)
    \/ execute_update_in_transaction(Main)
    \/ execute_update(Main)
    \/ commit(Other)

SpecLock ==
    /\ Init
    /\ [][NextLock]_vars
    /\ \A c \in Callers : SF_vars(BeginCall(c))
    /\ SF_vars(get_transaction(Main))
    /\ WF_vars(execute_update(Main))
    /\ WF_vars(commit(Other))

\* A caller runs units of work in transactions while another caller commits
\* or rolls back the connection through the Database.
NextTransaction ==
    \/ \E c \in Callers : BeginCall(c)
    \/ get_transaction(Main)
    \/ execute_many(Main)
    \/ execute_update(Main)
    \/ commit(Other)
    \/ rollback(Other)

SpecTransaction == Init /\ [][NextTransaction]_vars

\* ------------------------------------------------------------- properties
\* caller c is back from op, and nothing has touched the connection since
Returned(c, op) == pc[c] = "idle" /\ ret[c].op = op /\ ret[c].status = "returned"

Finished(c, op) == pc[c] = "idle" /\ ret[c].op = op /\ ret[c].status # "none"

\* C1: once delete_case(C) has returned, get_case(C) is None and no file or
\* document row that had case_id = C can be read back: not through
\* get_case_files(C) or get_case_documents(C), and not by its former id.
C1_DeleteCascades ==
    Returned(Main, "delete_case") =>
        LET C == ret[Main].id
            pre == ret[Main].pre
        IN  /\ get_case(conn, C) = None
            /\ get_case_files(conn, C) = {}
            /\ get_case_documents(conn, C) = {}
            /\ \A r \in pre.case_files :
                 r.case_id = C => ~\E q \in conn.case_files : q.id = r.id
            /\ \A r \in pre.case_documents :
                 r.case_id = C => ~\E q \in conn.case_documents : q.id = r.id

\* a case that owned a file and a document has been deleted
C1_Witness ==
    /\ Returned(Main, "delete_case")
    /\ ret[Main].value = TRUE
    /\ CaseExists(ret[Main].pre, ret[Main].id)
    /\ get_case_files(ret[Main].pre, ret[Main].id) # {}
    /\ get_case_documents(ret[Main].pre, ret[Main].id) # {}

\* C5: a create operation whose parent identifier names no existing parent
\* fails and stores no row; stated here for add_file_to_case and
\* add_document_to_case with a case_id that is no existing case.
C5_ParentChecked ==
    \A op \in {"add_file_to_case", "add_document_to_case"} :
        (Finished(Main, op) /\ ~CaseExists(ret[Main].pre, ret[Main].id)) =>
            /\ ret[Main].status = "raised"
            /\ conn = ret[Main].pre
            /\ disk = ret[Main].pre

\* C7: for an existing case C, last_modified of C after add_file_to_case(C)
\* or add_document_to_case(C) returns is at least its value before the call
\* (the clock never runs backwards), so it never decreases over a sequence
\* of such calls.
LastModified(db, case_id) == (CHOOSE r \in db.cases : r.id = case_id).last_modified

C7_LastModifiedMonotone ==
    \A op \in {"add_file_to_case", "add_document_to_case"} :
        (Returned(Main, op) /\ CaseExists(ret[Main].pre, ret[Main].id)) =>
            /\ CaseExists(conn, ret[Main].id)
            /\ LastModified(conn, ret[Main].id) >= LastModified(ret[Main].pre, ret[Main].id)

\* a file was added to a case after the clock moved on: last_modified grew
C7_Witness ==
    /\ Returned(Main, "add_file_to_case")
    /\ CaseExists(ret[Main].pre, ret[Main].id)
    /\ LastModified(conn, ret[Main].id) > LastModified(ret[Main].pre, ret[Main].id)

\* C9: update_case(id, fields), fields naming columns of cases: with no such
\* case it returns false and no stored row changes; with the case it returns
\* true, the case gets the supplied fields and last_modified = now (also
\* when fields is empty), and every other field and row stays as it was.
C9_Expected(old, u, now) ==
    [id |-> old.id,
     name |-> IF u.name # Unset THEN u.name ELSE old.name,
     status |-> IF u.status # Unset THEN u.status ELSE old.status,
     last_modified |-> now]

C9_UpdateCaseFrame ==
    (Finished(Main, "update_case") /\ UpdateKeys(ret[Main].u) \subseteq CasesColumns) =>
        LET pre == ret[Main].pre
            id == ret[Main].id
        IN  /\ ret[Main].status = "returned"
            /\ disk = conn
            /\ conn.case_files = pre.case_files
            /\ conn.case_documents = pre.case_documents
            /\ IF CaseExists(pre, id)
               THEN LET old == CHOOSE r \in pre.cases : r.id = id
                    IN  /\ ret[Main].value = TRUE
                        /\ ret[Main].t <= clock
                        /\ conn.cases =
                             (pre.cases \ {old})
                             \cup {C9_Expected(old, ret[Main].u, ret[Main].t)}
               ELSE /\ ret[Main].value = FALSE
                    /\ conn = pre

\* one of two stored cases was renamed, at a later time than its last change
C9_Witness ==
    /\ Returned(Main, "update_case")
    /\ ret[Main].value = TRUE
    /\ ret[Main].u.name = "B"
    /\ Cardinality(conn.cases) = 2
    /\ \E r \in ret[Main].pre.cases :
         r.id = ret[Main].id /\ r.name = "A" /\ r.last_modified < ret[Main].t

\* C2: when every caller has called add_file_to_case on the same existing
\* case and every call has returned, each call's file row is committed in
\* the store under that case: N calls, N rows, whatever the interleaving.
C2_NoLostUpdate ==
    (\A c \in Callers :
        /\ Returned(c, "add_file_to_case")
        /\ ret[c].id = ret[Main].id
        /\ CaseExists(ret[c].pre, ret[c].id))
    => \A c \in Callers :
         \E r \in disk.case_files : r.id = ret[c].newid /\ r.case_id = ret[Main].id

\* C3: a caller that executes on the shared connection holds the store's
\* lock, and no two callers execute on the connection at once.
C3_EveryStatementUnderLock ==
    /\ \A c \in busy : lock = c
    /\ Cardinality(busy) <= 1

\* C4: while delete_case(C) is under way, a step that changes the committed
\* state and takes away a committed row of C (a file, a document or the case
\* row) takes all of them away: the committed state never shows a part of
\* the deletion.
C4_RowsOf(db, C) ==
    {<<"case_files", r>> : r \in get_case_files(db, C)}
    \cup {<<"case_documents", r>> : r \in get_case_documents(db, C)}
    \cup {<<"cases", r>> : r \in {q \in db.cases : q.id = C}}

C4_DeleteAtomic ==
    [][\A c \in Callers :
         (frame[c].op = "delete_case" /\ disk' # disk) =>
             LET C == frame[c].id
             IN  (C4_RowsOf(disk, C) \ C4_RowsOf(disk', C) # {})
                     => C4_RowsOf(disk', C) = {}]_vars

\* C6: at most one legal_authorities record is stored per citation, and when
\* a citation has been inserted a second time with another summary, exactly
\* one record is stored for it, with the summary of the second insert.
C6_UpsertByCitation ==
    /\ \A a, b \in conn.legal_authorities : a.citation = b.citation => a = b
    /\ (Finished(Main, "_add_authority_to_database") /\ ret[Main].k = 2) =>
           \E r \in conn.legal_authorities :
               r.citation = ret[Main].citation /\ r.summary = ret[Main].summary

\* C8: a successful write to an entity owned by case C leaves C.last_modified
\* at the time of the write: for add_violation and _store_strategy on C, and
\* for calculate_damages on a violation of C.
C8_OwnerOf(db, f) ==
    IF f.op = "calculate_damages"
    THEN {v.case_id : v \in {q \in db.violations : q.id = f.id}}
    ELSE {f.id}

C8_OwnedWriteStampsCase ==
    \A op \in {"add_violation", "_store_strategy", "calculate_damages"} :
        Returned(Main, op) =>
            \A C \in C8_OwnerOf(ret[Main].pre, ret[Main]) :
                CaseExists(ret[Main].pre, C) =>
                    /\ CaseExists(conn, C)
                    /\ LastModified(conn, C) >= ret[Main].t

\* C10: in every state of the store get_all_cases() lists every case once,
\* last_modified never increasing along the list; get_case_violations(C)
\* lists exactly the violations of C, date_occurred never increasing, each
\* with exactly its own evidence rows and its own timeline events, event_date
\* never decreasing.
C10_Lists(seq, rows) ==
    /\ Len(seq) = Cardinality(rows)
    /\ {seq[i] : i \in 1..Len(seq)} = rows

C10_ReadsSorted ==
    /\ LET cases == get_all_cases(conn)
       IN  /\ C10_Lists(cases, conn.cases)
           /\ \A i, j \in 1..Len(cases) :
                i < j => cases[i].last_modified >= cases[j].last_modified
    /\ \A C \in KnownIds \cup {v.case_id : v \in conn.violations} :
         LET found == get_case_violations(conn, C)
         IN  /\ C10_Lists([i \in 1..Len(found) |-> found[i].violation],
                          {v \in conn.violations : v.case_id = C})
             /\ \A i, j \in 1..Len(found) :
                  i < j => found[i].violation.date_occurred
                              >= found[j].violation.date_occurred
             /\ \A i \in 1..Len(found) :
                  LET v == found[i].violation
                      tl == found[i].timeline
                  IN  /\ found[i].evidence
                            = {e \in conn.violation_evidence : e.violation_id = v.id}
                      /\ C10_Lists(tl, {e \in conn.violation_timeline :
                                           e.violation_id = v.id})
                      /\ \A m, n \in 1..Len(tl) :
                           m < n => tl[m].event_date <= tl[n].event_date

\* two cases last modified at different times; one of them has two
\* violations of different dates, one of which has two timeline events of
\* different dates
C10_Witness ==
    /\ \E a, b \in conn.cases : a.last_modified < b.last_modified
    /\ \E C \in {r.id : r \in conn.cases} :
         /\ \E v, w \in conn.violations :
              v.case_id = C /\ w.case_id = C /\ v.date_occurred < w.date_occurred
         /\ \E v \in conn.violations :
              /\ v.case_id = C
              /\ \E e, f \in conn.violation_timeline :
                   /\ e.violation_id = v.id
                   /\ f.violation_id = v.id
                   /\ e.event_date < f.event_date


\* C13: _calculate_relevance(query, summary) is |Q \cap S| / |Q|, Q and S being
\* the sets of lowercase tokens (maximal runs without white space) of the
\* query and of the summary; it lies in [0, 1]; it is 0 when the query or
\* the summary is empty or has no token.
C13_Tokens(s) ==
    {lower(SubSeq(s, i, j)) : <<i, j>> \in
        {p \in (1..Len(s)) \X (1..Len(s)) :
            /\ p[1] <= p[2]
            /\ \A n \in p[1]..p[2] : s[n] \notin WhiteSpace
            /\ p[1] = 1 \/ s[p[1] - 1] \in WhiteSpace
            /\ p[2] = Len(s) \/ s[p[2] + 1] \in WhiteSpace}}

C13_RelevanceIsOverlap ==
    Returned(Main, "_calculate_relevance") =>
        LET Q == C13_Tokens(ret[Main].query)
            T == C13_Tokens(ret[Main].text)
            r == ret[Main].value
        IN  /\ r.den > 0
            /\ 0 <= r.num
            /\ r.num <= r.den
            /\ IF Q = {} \/ T = {}
               THEN r.num = 0
               ELSE r.num * Cardinality(Q) = Cardinality(Q \cap T) * r.den

\* a query of two words, one of which the text has in another case
C13_Witness ==
    /\ Returned(Main, "_calculate_relevance")
    /\ Cardinality(C13_Tokens(ret[Main].query)) = 2
    /\ ret[Main].value = Quotient(1, 2)
    /\ \E i \in 1..Len(ret[Main].text) : ret[Main].text[i] = "A"


\* the verified rows of the local store that the search would match
C11_LocalHits(db, query, search_type) ==
    {r \in db.legal_authorities :
        /\ \/ Like(query, r.citation)
           \/ Like(query, r.title)
           \/ Like(query, r.summary)
        /\ r.authority_type = search_type
        /\ r.verification_status = "verified"}

\* C11: search_authority returns at most 10 entries with pairwise distinct
\* citations, and it has invoked the external lookup exactly when the local
\* store gave fewer than 5 hits.
C11_SearchMerges ==
    Returned(Main, "search_authority") =>
        LET found == ret[Main].value
            hits == C11_LocalHits(ret[Main].pre, ret[Main].query, ret[Main].name)
        IN  /\ Len(found) <= MaxResults
            /\ \A i, j \in 1..Len(found) :
                   found[i].citation = found[j].citation => i = j
            /\ (ret[Main].external > 0) <=> (Cardinality(hits) < MinLocalResults)


\* C14: every entry of the list search_authority returns carries a relevance
\* score, and that score is the one _calculate_relevance gives for the query
\* of the call and the entry's summary (not a stored relevance_score).
C14_ScoredForQuery ==
    Returned(Main, "search_authority") =>
        \A i \in 1..Len(ret[Main].value) :
            LET result == ret[Main].value[i]
            IN  /\ "relevance_score" \in result.keys
                /\ result.relevance_score =
                       _calculate_relevance(ret[Main].query, result.summary)


C15_VerifiedOnce ==
    (Finished(Main, "verify_citation") /\ ret[Main].k = 2) =>
        /\ ret[Main].external = 0
        /\ ret[Main].value = [verified |-> TRUE, source |-> "local_database"]


\* the row that add_violation has stored
StoredViolation == CHOOSE r \in conn.violations : r.id = ret[Main].newid

\* a category named by the rule of C17: its name is contained in the
\* violation type, or one of its common violations is, whatever the case
C17_Applies(info, violation_type) ==
    \/ Contains(lower(info.category), lower(violation_type))
    \/ \E n \in 1..Len(info.common_violations) :
           Contains(lower(info.common_violations[n]), lower(violation_type))

C17_Applicable(violation_type) ==
    {i \in 1..Len(violation_categories) :
        C17_Applies(violation_categories[i], violation_type)}

C17_Statutes(i) ==
    JoinWith(violation_categories[i].federal_statutes
                 \o violation_categories[i].texas_statutes, <<",", " ">>)

\* C16: add_violation for a violation type that matches the category table
\* has made no call to the client, and the legal codes it has stored for a
\* Fourth Amendment violation include "42 U.S.C. § 1983".
C16_TableNeedsNoClient ==
    (Returned(Main, "add_violation") /\ C17_Applicable(ret[Main].name) # {}) =>
        /\ ret[Main].external = 0
        /\ Contains(<<"f", "o", "u", "r", "t", "h", " ", "a", "m", "e", "n", "d", "m", "e",
            "n", "t">>, lower(ret[Main].name))
               => Contains(<<"4", "2", " ", "U", ".", "S", ".", "C", ".", " ", "§", " ", "1",
                   "9", "8", "3">>, StoredViolation.legal_codes)

\* C17: the statutes are those of the first category whose name or one of
\* whose common violations is contained in the violation type; the client
\* is asked for statutes only when there is no such category, and then the
\* statutes are not those of a category.
C17_FirstCategory ==
    Returned(Main, "add_violation") =>
        LET applicable == C17_Applicable(ret[Main].name)
        IN  IF applicable # {}
            THEN /\ StoredViolation.legal_codes =
                       C17_Statutes(CHOOSE i \in applicable : \A j \in applicable : i <= j)
                 /\ ret[Main].external < 2
            ELSE \A i \in 1..Len(violation_categories) :
                     StoredViolation.legal_codes # C17_Statutes(i)

\* C18: the legal codes add_violation stores are never the empty string, and
\* they are the placeholder when no category matches the violation type and
\* no line of the client's answer holds "U.S.C." or both "Texas" and "Code".
C18_PlaceholderNotEmpty ==
    Returned(Main, "add_violation") =>
        /\ StoredViolation.legal_codes # <<>>
        /\ (/\ C17_Applicable(ret[Main].name) = {}
            /\ StatuteLines(SplitLines(ret[Main].text)) = <<>>)
               => StoredViolation.legal_codes = <<"R", "e", "s", "e", "a", "r", "c", "h", " ",
                   "R", "e", "q", "u", "i", "r", "e", "d">>

\* C19: when the client has answered the statute prompt with its error
\* text, the legal codes stored are the placeholder.
C19_ClientError(analysis) ==
    Len(analysis) >= 5 /\ SubSeq(analysis, 1, 5) = <<"E", "r", "r", "o", "r">>

C19_FailureGivesPlaceholder ==
    (/\ Returned(Main, "add_violation")
     /\ ret[Main].external = 2
     /\ C19_ClientError(ret[Main].text))
        => StoredViolation.legal_codes = <<"R", "e", "s", "e", "a", "r", "c", "h", " ", "R",
            "e", "q", "u", "i", "r", "e", "d">>


\* C20: get_transaction holds the lock while the unit of work runs and has
\* released it at its exit; the rows a unit of work wrote are committed
\* when it completed, and when it raised none of them is ever committed.
C20_ScopedTransaction ==
    /\ pc[Main] = "gt_work" => lock = Main
    /\ Finished(Main, "get_transaction") =>
           /\ lock # Main
           /\ ret[Main].status = "returned" =>
                  \A id \in ret[Main].written : \E r \in disk.cases : r.id = id
           /\ ret[Main].status = "raised" =>
                  \A id \in ret[Main].written : ~\E r \in disk.cases : r.id = id


\* C21: when execute_update or execute_many has failed, no row that the call
\* wrote is in the committed state, then or after a later commit by any
\* caller; when it has succeeded, every row of the call is committed.
C21_AllOrNothing ==
    \A op \in {"execute_update", "execute_many"} :
        Finished(Main, op) =>
            IF ret[Main].status = "returned"
            THEN \A n \in 1..Len(ret[Main].events) :
                     \E r \in disk.cases : r.id = ret[Main].events[n]
            ELSE \A id \in ret[Main].written : ~\E r \in disk.cases : r.id = id


\* C22: when restore_database has returned False, the store is open and
\* usable and holds what it held before the call; it is not left closed,
\* missing or half-initialized.
C22_FailedRestoreKeepsStore ==
    Finished(Main, "restore_database") /\ ~ret[Main].value =>
        /\ Usable(conn)
        /\ Usable(disk)
        /\ conn = ret[Main].pre


\* C23: once delete_case(C) has returned, get_case_violations(C) is empty and
\* no violation, evidence, timeline or strategy row that belonged to C is
\* left.
C23_DeleteRemovesViolations ==
    Returned(Main, "delete_case") /\ ret[Main].value =>
        LET C == ret[Main].id
            mine == {v.id : v \in {r \in ret[Main].pre.violations : r.case_id = C}}
        IN  /\ get_case_violations(conn, C) = <<>>
            /\ \A v \in conn.violations : v.case_id # C
            /\ \A r \in conn.violation_evidence \cup conn.violation_timeline :
                   r.violation_id \notin mine
            /\ \A s \in conn.nuclear_strategies : s.case_id # C


\* C24: generated identifiers are unique, also within one second of the
\* clock: no add_violation, add_evidence or create_violation_timeline of a
\* caller working alone ends with its error value because the identifier
\* it generated is already stored.
C24_FreshIdentifiers ==
    \A op \in {"add_violation", "add_evidence", "create_violation_timeline"} :
        Finished(Main, op) => ret[Main].status = "returned"


\* C25: cases are isolated.  A step of add_file_to_case, add_document_to_case,
\* update_case or delete_case on case A leaves the case row, the files and
\* the documents of every other case B as they were, and get_case(B),
\* get_case_files(B) and get_case_documents(B) return only rows of B.
C25_CasesIsolated ==
    [][\A B \in KnownIds :
          /\ (/\ frame[Main].op \in {"add_file_to_case", "add_document_to_case",
                                     "update_case", "delete_case"}
              /\ frame[Main].id # B)
                 => C4_RowsOf(conn', B) = C4_RowsOf(conn, B)
          /\ \A r \in get_case_files(conn', B) \cup get_case_documents(conn', B) :
                 r.case_id = B
          /\ get_case(conn', B) # None => get_case(conn', B).id = B]_vars

\* delete_case(A) has deleted A and its files while another case B is stored
C25_Witness ==
    \E B \in KnownIds :
        /\ Returned(Main, "delete_case")
        /\ ret[Main].value = TRUE
        /\ B # ret[Main].id
        /\ get_case_files(ret[Main].pre, ret[Main].id) # {}
        /\ CaseExists(ret[Main].pre, B)
        /\ CaseExists(conn, B)


\* C26: create_violation_timeline(v, events) with k events returns, having
\* stored exactly k new timeline rows for v, the timeline of v sorted by
\* event_date ascending.
C26_TimelineStored ==
    Finished(Main, "create_violation_timeline") =>
        LET v == ret[Main].id
            new == conn.violation_timeline \ ret[Main].pre.violation_timeline
        IN  /\ ret[Main].status = "returned"
            /\ Cardinality(new) = Len(ret[Main].events)
            /\ \A r \in new : r.violation_id = v
            /\ ret[Main].value = SelectTimeline(conn, v)


\* C27: search_violations(text, case_id) returns exactly the violations whose
\* violation type or stored statute codes contain text, only those of the
\* case when a case_id is given, and an empty sequence when none does.
C27_SearchFindsMatches ==
    Finished(Main, "search_violations") =>
        /\ ret[Main].status = "returned"
        /\ ToSet(ret[Main].value)
              = {r \in conn.violations :
                    /\ ret[Main].k = 1 => r.case_id = ret[Main].id
                    /\ \/ Like(ret[Main].text, r.violation_type)
                       \/ Like(ret[Main].text, r.legal_codes)}


\* C28: the lock is never held indefinitely: whenever a caller holds it, it
\* is released later, and every caller that is in a store operation or in
\* a unit of work gets back to its own code.
C28_LockReleased ==
    \A c \in Callers :
        /\ (lock = c) ~> (lock # c)
        /\ (pc[c] # "idle") ~> (pc[c] = "idle")


\* C29: when add_violation, add_evidence or create_violation_timeline has
\* returned its error value, no row that the call wrote is pending on the
\* connection (where a later commit would make it durable).
C29_FailedWriteLeavesNothing ==
    \A op \in {"add_violation", "add_evidence", "create_violation_timeline"} :
        Finished(Main, op) /\ ret[Main].status = "error" =>
            \A table \in {"violations", "violation_evidence", "violation_timeline"} :
                conn[table] \ disk[table] \subseteq ret[Main].pre[table]


\* C30: a rollback by one caller discards only that caller's own uncommitted
\* writes: when Database.rollback of a caller that has written nothing runs,
\* alone on the connection, while create_case of another caller is between
\* its INSERT and its commit, the inserted row stays on the connection, so
\* that the id create_case returns names a committed row.
C30_RollbackDiscardsOwnOnly ==
    [][(/\ pc[Other] = "db_rollback"
        /\ Other \in busy
        /\ Other \notin raced
        /\ pc'[Other] = "idle"
        /\ frame[Main].op = "create_case")
          => \A r \in conn.cases : r.id = frame[Main].newid => r \in conn'.cases]_vars

====
